---- MODULE Spec2Model ----
(***************************************************************************)
(* LEMM: the clip-chaining and mixing engine (src/src/audio/mixer.py) and  *)
(* the song-generation driver (src/src/ui/gradio_interface.py).            *)
(*                                                                         *)
(* Samples are fixed-point numbers: the integer n stands for n / SCALE.    *)
(* As with the float32 buffers of the code, the result of every            *)
(* multiplication and division is rounded to the nearest representable     *)
(* value.  A numpy array is a sequence of samples; a call that raises is   *)
(* the result Err, a call that returns the array b is Ok(b).               *)
(***************************************************************************)
EXTENDS Integers, Sequences, FiniteSets, TLC

(* ------------------------------ bounds -------------------------------- *)

\* longest clip handed to the chainer / the fader / the masterer
MaxLen == 5
\* most clips in one chained sequence
MaxClips == 3
\* largest crossfade_samples = int(crossfade_duration * sample_rate)
MaxCrossfade == 3
\* most stems in a StemSet drawn for mix_stems
MaxStems == 2
\* longest stem buffer drawn for mix_stems
MaxStemLen == 2
\* most clips asked of one generate_song request
MaxSongClips == 2
\* most generate_song requests running at once
MaxRequests == 2
\* longest clip the generator is configured for
MaxSongLen == 3
\* largest of the small sample rates configured (samples per second)
MaxRate == 1
\* longest clip, in seconds, of the chains given by their durations
MaxSeconds == 3
\* longest crossfade_duration, in seconds, of those chains
MaxCrossfadeSeconds == 2
\* last second of the wall clock
MaxTime == 2
\* calls made to the DatasetManager
MaxDataCalls == 2
\* downloads that fail
MaxNetFailures == 2
\* most save_output calls made on one FileManager
MaxSaves == 2
\* largest microsecond field of a timestamp
MaxMicro == 1

(* -------------------------- program constants ------------------------- *)

\* resolution of a sample: 1.0 is SCALE units
SCALE == 100
\* stem_volumes and the default of stem_volumes.get
VOL_VOCALS == 100
VOL_DRUMS == 85
VOL_BASS == 80
VOL_OTHER == 75
VOL_DEFAULT == 60
\* mixed_max > 0.95, mixed / mixed_max * 0.95
HEADROOM == 95
\* mastered / max_val * 0.9, np.abs(mastered) > 0.9
MASTER_PEAK == 90
\* stem_max < 1e-6 and clip_max < 1e-6: x < 1e-6 iff x * SILENCE_INV < SCALE
SILENCE_INV == 1000000
\* audio_to_save / max_val * 0.95 in save_output
SAVE_PEAK == 95
\* config.get("audio", {}).get("sample_rate", 44100)
DEFAULT_SAMPLE_RATE == 44100
\* MusicGenPipeline.sample_rate
MUSICGEN_SAMPLE_RATE == 32000
\* lead-out section (last 2 seconds) of _generate_conditioning
LEAD_OUT_SECONDS == 2
\* (audio_to_save * 32767).astype(np.int16) of the scipy fallback
INT16_MAX == 32767

(* ----------------------------- arithmetic ----------------------------- *)

Abs(x) == IF x < 0 THEN -x ELSE x

Sgn(x) == IF x < 0 THEN -1 ELSE IF x > 0 THEN 1 ELSE 0

MinOf(a, b) == IF a < b THEN a ELSE b

MaxOf(a, b) == IF a > b THEN a ELSE b

\* a / b rounded to the nearest integer, for a >= 0 and b > 0
RoundDiv(a, b) == (2 * a + b) \div (2 * b)

\* the product of two samples
Mul(a, b) == Sgn(a) * Sgn(b) * RoundDiv(Abs(a) * Abs(b), SCALE)

\* the quotient of a sample by a positive sample
Div(a, b) == Sgn(a) * RoundDiv(Abs(a) * SCALE, b)

\* x ** 1.5 for a sample 0 <= x <= 1, rounded down
Pow15(x) ==
    CHOOSE r \in 0..SCALE :
        /\ r * r * SCALE <= x * x * x
        /\ (r + 1) * (r + 1) * SCALE > x * x * x

\* tanh(d / 10) for d >= 0, rounded to the nearest sample
TanhTable ==
    << 10, 20, 29, 38, 46, 54, 60, 66, 72, 76,
       80, 83, 86, 89, 91, 92, 94, 95, 96, 96,
       97, 98, 98, 98, 99, 99, 99, 99, 99 >>

TanhTenths(d) ==
    IF d = 0 THEN 0
    ELSE IF d <= Len(TanhTable) THEN TanhTable[d]
    ELSE SCALE

\* no audio counts as silent
BelowSilence_Never(x) == FALSE

\* x < 1e-6
BelowSilence(x) == x * SILENCE_INV < SCALE

(* --------------------------- numpy arrays ----------------------------- *)

Err == [ok |-> FALSE, buf |-> << >>]

Ok(b) == [ok |-> TRUE, buf |-> b]

Zeros(n) == [k \in 1..n |-> 0]

RECURSIVE PeakFrom(_, _)
PeakFrom(a, k) ==
    IF k > Len(a) THEN 0 ELSE MaxOf(Abs(a[k]), PeakFrom(a, k + 1))

\* np.abs(a).max() of a non-empty array
Peak(a) == PeakFrom(a, 1)

\* a Python index of a slice bound on an array of n elements
PyIndex(n, a) == IF a < 0 THEN MaxOf(a + n, 0) ELSE MinOf(a, n)

\* number of elements of x[a:b]
SliceLen(n, a, b) == MaxOf(PyIndex(n, b) - PyIndex(n, a), 0)

\* x[a:b]
Slice(x, a, b) ==
    [k \in 1..SliceLen(Len(x), a, b) |-> x[PyIndex(Len(x), a) + k]]

\* element k of an operand broadcast against a longer array
At(x, k) == IF Len(x) = 1 THEN x[1] ELSE x[k]

\* an operand of p elements broadcasts onto a target of m elements
FitsInto(p, m) == p = m \/ p = 1

\* length of the elementwise combination of arrays of m and n elements,
\* -1 when the shapes do not broadcast
BroadcastLen(m, n) ==
    IF m = n THEN m ELSE IF m = 1 THEN n ELSE IF n = 1 THEN m ELSE -1

\* x * y, elementwise
MulArrays(x, y) ==
    LET n == BroadcastLen(Len(x), Len(y)) IN
    IF n = -1 THEN Err
    ELSE Ok([k \in 1..n |-> Mul(At(x, k), At(y, k))])

\* x[a:b] = src
AssignSlice(x, a, b, src) ==
    LET lo == PyIndex(Len(x), a)
        m == SliceLen(Len(x), a, b) IN
    IF ~FitsInto(Len(src), m) THEN Err
    ELSE Ok([k \in 1..Len(x) |->
                IF k > lo /\ k <= lo + m THEN At(src, k - lo) ELSE x[k]])

\* x[a:b] *= src
MulSlice(x, a, b, src) ==
    LET lo == PyIndex(Len(x), a)
        m == SliceLen(Len(x), a, b) IN
    IF ~FitsInto(Len(src), m) THEN Err
    ELSE Ok([k \in 1..Len(x) |->
                IF k > lo /\ k <= lo + m
                THEN Mul(x[k], At(src, k - lo)) ELSE x[k]])

\* x[a:b] += src
AddSlice(x, a, b, src) ==
    LET lo == PyIndex(Len(x), a)
        m == SliceLen(Len(x), a, b) IN
    IF ~FitsInto(Len(src), m) THEN Err
    ELSE Ok([k \in 1..Len(x) |->
                IF k > lo /\ k <= lo + m
                THEN x[k] + At(src, k - lo) ELSE x[k]])

\* np.linspace(1, 0, n)
LinspaceDown(n) ==
    IF n = 1 THEN << SCALE >>
    ELSE [k \in 1..n |-> SCALE - RoundDiv((k - 1) * SCALE, n - 1)]

\* a fade-in that lets the later clip in at full level
LinspaceUp_Ones(n) == [k \in 1..n |-> SCALE]

\* np.linspace(0, 1, n)
LinspaceUp(n) ==
    IF n = 1 THEN << 0 >>
    ELSE [k \in 1..n |-> RoundDiv((k - 1) * SCALE, n - 1)]

\* the fade curve without the power: a linear ramp
FadeCurve_Linear(n) == LinspaceDown(n)

\* np.power(np.linspace(1, 0, n), 1.5)
FadeCurve(n) == [k \in 1..n |-> Pow15(LinspaceDown(n)[k])]

(* ------------------------ AudioMixer (mixer.py) ----------------------- *)

\* the stem volumes all at 1.0
StemVolume_Flat(name) == SCALE

\* stem_volumes.get(stem_name, 0.6)
StemVolume(name) ==
    CASE name = "vocals" -> VOL_VOCALS
      [] name = "drums" -> VOL_DRUMS
      [] name = "bass" -> VOL_BASS
      [] name = "other" -> VOL_OTHER
      [] OTHER -> VOL_DEFAULT

\* stem_audio * volume
ScaleArray(a, v) == [k \in 1..Len(a) |-> Mul(a[k], v)]

\* the loop of mix_stems over stems.items(), from entry i on: a stem whose
\* peak is below the silence threshold is skipped (continue), any other is
\* added into the accumulator (mixed += stem_audio * volume)
RECURSIVE MixLoop(_, _, _)
MixLoop(stems, i, mixed) ==
    IF i > Len(stems) THEN Ok(mixed)
    ELSE LET stem_audio == stems[i].audio
             volume == StemVolume(stems[i].name) IN
         IF Len(stem_audio) = 0 THEN Err
         ELSE IF BelowSilence(Peak(stem_audio))
              THEN MixLoop(stems, i + 1, mixed)
         ELSE LET r == AddSlice(mixed, 0, Len(mixed),
                                ScaleArray(stem_audio, volume)) IN
              IF r.ok THEN MixLoop(stems, i + 1, r.buf) ELSE Err

\* the mix normalized to full scale
NormalizeMix_FullScale(mixed, mixed_max) ==
    [k \in 1..Len(mixed) |-> Mul(Div(mixed[k], mixed_max), SCALE)]

\* mixed / mixed_max * 0.95
NormalizeMix(mixed, mixed_max) ==
    [k \in 1..Len(mixed) |-> Mul(Div(mixed[k], mixed_max), HEADROOM)]

\* the mix is never divided by its peak
NormalizesMix_Never(mixed_max) == FALSE

\* the mix is divided by its peak: if mixed_max > 0: if mixed_max > 0.95
NormalizesMix(mixed_max) == mixed_max > 0 /\ mixed_max > HEADROOM

\* AudioMixer.mix_stems; a StemSet is the sequence of the dict's items,
\* [name, audio], in insertion order
\* the accumulator mixed of mix_stems as the loop over the stems leaves it,
\* before mixed_max is taken
MixAccumulator(stems) ==
    IF Len(stems) = 0 THEN Err
    ELSE LET reference_stem == stems[1].audio IN
         MixLoop(stems, 1, Zeros(Len(reference_stem)))

mix_stems(stems) ==
    IF Len(stems) = 0 THEN Err
    ELSE LET acc == MixAccumulator(stems) IN
         IF ~acc.ok THEN Err
         ELSE LET mixed_max == Peak(acc.buf) IN
              IF NormalizesMix(mixed_max)
              THEN Ok(NormalizeMix(acc.buf, mixed_max))
              ELSE acc

\* the whole audio is faded, whatever its length
add_final_fadeout_Whole(audio, cs) ==
    MulArrays(audio, LinspaceDown(Len(audio)))

\* audio no longer than the fade is left as it is
add_final_fadeout_LongOnly(audio, cs) ==
    IF Len(audio) <= cs
    THEN Ok(audio)
    ELSE LET fade_start == Len(audio) - cs IN
         MulSlice(audio, fade_start, Len(audio), FadeCurve(cs))

\* AudioMixer._add_final_fadeout with fadeout_samples = cs
add_final_fadeout(audio, cs) ==
    IF Len(audio) <= cs
    THEN MulArrays(audio, LinspaceDown(Len(audio)))
    ELSE LET fade_start == Len(audio) - cs IN
         MulSlice(audio, fade_start, Len(audio), FadeCurve(cs))

\* a clip of the chain loop that is neither the first nor the last: crossfade
\* with what is laid down, then copy the rest; st = [ok, buf, pos]
ChainMiddle(st, clip, cs) ==
    LET pos == st.pos
        r1 == MulSlice(st.buf, pos, pos + cs, LinspaceDown(cs))
        head == MulArrays(Slice(clip, 0, cs), LinspaceUp(cs))
        r2 == IF r1.ok /\ head.ok
              THEN AddSlice(r1.buf, pos, pos + cs, head.buf) ELSE Err
        remaining_start == pos + cs
        r3 == IF r2.ok
              THEN AssignSlice(r2.buf, remaining_start,
                               remaining_start + Len(clip) - cs,
                               Slice(clip, cs, Len(clip)))
              ELSE Err IN
    [ok |-> r3.ok, buf |-> r3.buf, pos |-> pos + Len(clip) - cs]

\* the last clip of the chain loop: crossfade with what is laid down, then
\* copy the rest with the final fade-out applied to it
ChainLast(st, clip, cs) ==
    LET pos == st.pos
        r1 == MulSlice(st.buf, pos, pos + cs, LinspaceDown(cs))
        head == MulArrays(Slice(clip, 0, cs), LinspaceUp(cs))
        r2 == IF r1.ok /\ head.ok
              THEN AddSlice(r1.buf, pos, pos + cs, head.buf) ELSE Err
        remaining_start == pos + cs
        remaining_clip == add_final_fadeout(Slice(clip, cs, Len(clip)), cs)
        r3 == IF r2.ok /\ remaining_clip.ok
              THEN AssignSlice(r2.buf, remaining_start,
                               remaining_start + Len(remaining_clip.buf),
                               remaining_clip.buf)
              ELSE Err IN
    [ok |-> r3.ok, buf |-> r3.buf, pos |-> pos + Len(clip)]

\* the first clip of the chain loop: no crossfade at the start
ChainFirst(st, clip, cs) ==
    LET r == AssignSlice(st.buf, st.pos, st.pos + Len(clip), clip) IN
    [ok |-> r.ok, buf |-> r.buf, pos |-> st.pos + Len(clip) - cs]

\* the for loop of _chain_with_crossfade from clip i (1-based) on
RECURSIVE ChainLoop(_, _, _, _)
ChainLoop(clips, cs, i, st) ==
    IF ~st.ok THEN Err
    ELSE IF i > Len(clips) THEN Ok(st.buf)
    ELSE LET next == IF i = 1 THEN ChainFirst(st, clips[i], cs)
                     ELSE IF i = Len(clips) THEN ChainLast(st, clips[i], cs)
                     ELSE ChainMiddle(st, clips[i], cs) IN
         ChainLoop(clips, cs, i + 1, next)

RECURSIVE SumLen(_, _)
SumLen(clips, i) ==
    IF i > Len(clips) THEN 0 ELSE Len(clips[i]) + SumLen(clips, i + 1)

\* int(self.crossfade_duration * self.sample_rate), for whole seconds
CrossfadeSamples(crossfade_duration, rate) == crossfade_duration * rate

RECURSIVE SumFrom(_, _)
SumFrom(lens, i) ==
    IF i > Len(lens) THEN 0 ELSE lens[i] + SumFrom(lens, i + 1)

\* the lengths added up, the overlaps not taken off
TotalOfLengths_NoOverlap(lens, crossfade_samples) == SumFrom(lens, 1)

\* total_samples of clips given by their lengths
TotalOfLengths(lens, crossfade_samples) ==
    SumFrom(lens, 1) - (Len(lens) - 1) * crossfade_samples

\* len(result) of _chain_with_crossfade on clips of the given lengths, none
\* shorter than the crossfade: a single clip keeps its length under the
\* final fade-out, several fill the np.zeros(total_samples) buffer
ChainedLength(lens, crossfade_samples) ==
    IF Len(lens) = 1 THEN lens[1]
    ELSE TotalOfLengths(lens, crossfade_samples)

\* the clips laid end to end, the overlaps not taken off
TotalSamples_NoOverlap(clips, cs) == SumLen(clips, 1)

\* sum(len(clip) for clip in clips) - (len(clips) - 1) * crossfade_samples
TotalSamples(clips, cs) == SumLen(clips, 1) - (Len(clips) - 1) * cs

\* AudioMixer._chain_with_crossfade with crossfade_samples = cs
chain_with_crossfade(clips, cs) ==
    IF Len(clips) = 1 THEN add_final_fadeout(clips[1], cs)
    ELSE LET total_samples == TotalSamples(clips, cs) IN
         IF total_samples < 0 THEN Err
         ELSE ChainLoop(clips, cs, 1,
                        [ok |-> TRUE, buf |-> Zeros(total_samples), pos |-> 0])

\* sign(x) * (0.9 + 0.1 * tanh((|x| - 0.9) * 10))
SoftLimit(x) ==
    Sgn(x) * (MASTER_PEAK
              + RoundDiv((SCALE - MASTER_PEAK)
                         * TanhTenths(((Abs(x) - MASTER_PEAK) * 10 * 10)
                                      \div SCALE), SCALE))

\* the master normalized to full scale
NormalizeMaster_FullScale(audio, max_val) ==
    [k \in 1..Len(audio) |-> Mul(Div(audio[k], max_val), SCALE)]

\* the gain applied to the audio as it is, its peak not divided out
NormalizeMaster_GainOnly(audio, max_val) ==
    [k \in 1..Len(audio) |-> Mul(audio[k], MASTER_PEAK)]

\* mastered / max_val * 0.9
NormalizeMaster(audio, max_val) ==
    [k \in 1..Len(audio) |-> Mul(Div(audio[k], max_val), MASTER_PEAK)]

\* mastered[peaks] = ..., peaks = np.abs(mastered) > 0.9
LimitPeaks(mastered) ==
    [k \in 1..Len(mastered) |->
        IF Abs(mastered[k]) > MASTER_PEAK
        THEN SoftLimit(mastered[k]) ELSE mastered[k]]

\* the audio is divided by its peak: if max_val > 0
NormalizesMaster(max_val) == max_val > 0

\* silent audio is refused
master_SilentRaises(audio) ==
    IF Len(audio) = 0 \/ Peak(audio) = 0 THEN Err
    ELSE Ok(LimitPeaks(NormalizeMaster(audio, Peak(audio))))

\* AudioMixer.master
master(audio) ==
    IF Len(audio) = 0 THEN Err
    ELSE LET max_val == Peak(audio)
             mastered == IF NormalizesMaster(max_val)
                         THEN NormalizeMaster(audio, max_val) ELSE audio IN
         Ok(LimitPeaks(mastered))

(* --------------- MusicGenerator (music_generator.py) ------------------ *)

\* an Optional[np.ndarray]: None, or an array
None == [some |-> FALSE, buf |-> << >>]

Some(b) == [some |-> TRUE, buf |-> b]

\* MusicGenerator.sample_rate after __init__: the configured rate, which
\* _init_musicgen replaces by the rate of the MusicGen pipeline
GeneratorRate(model_type, configured) ==
    IF model_type = "musicgen" THEN MUSICGEN_SAMPLE_RATE ELSE configured

\* the first two seconds of the previous clip
generate_conditioning_LeadIn(previous_clip, rate) ==
    LET lead_out_samples == LEAD_OUT_SECONDS * rate IN
    Slice(previous_clip, 0, lead_out_samples)

\* MusicGenerator._generate_conditioning with sample_rate = rate:
\* previous_clip[-lead_out_samples:]
generate_conditioning(previous_clip, rate) ==
    LET lead_out_samples == LEAD_OUT_SECONDS * rate IN
    Slice(previous_clip, -lead_out_samples, Len(previous_clip))

\* a short clip is returned as it is
structure_clip_NoPad(clip, expected_samples) ==
    IF Len(clip) > expected_samples
    THEN Slice(clip, 0, expected_samples)
    ELSE clip

\* MusicGenerator._structure_clip with
\* expected_samples = int(clip_duration * sample_rate)
structure_clip(clip, expected_samples) ==
    IF Len(clip) < expected_samples
    THEN LET padding == expected_samples - Len(clip) IN
         clip \o Zeros(padding)
    ELSE IF Len(clip) > expected_samples
    THEN Slice(clip, 0, expected_samples)
    ELSE clip

(* ---------------- DatasetManager (dataset_manager.py) ----------------- *)

\* the keys of DATASETS_CONFIG
DatasetKeys ==
    {"nsynth", "ljspeech", "urmp", "fma_small", "libritts", "musicnet",
     "fma_large", "lakh_midi"}

\* size_gb of each dataset, in tenths of a GB
SizeTenths ==
    [nsynth |-> 300, ljspeech |-> 26, urmp |-> 125, fma_small |-> 80,
     libritts |-> 600, musicnet |-> 60, fma_large |-> 1060, lakh_midi |-> 5]

\* the datasets whose config has an "hf_id"
HfKeys == {"nsynth", "ljspeech", "fma_small", "libritts"}

\* the datasets whose config has a "download_url"
UrlKeys ==
    {"nsynth", "urmp", "fma_small", "musicnet", "fma_large", "lakh_midi"}

\* PHASES[phase]["datasets"]
PhaseDatasets(phase) ==
    CASE phase = "minimal" ->
           << "nsynth", "ljspeech", "urmp", "fma_small" >>
      [] phase = "balanced" ->
           << "nsynth", "ljspeech", "urmp", "fma_small", "libritts",
              "musicnet" >>
      [] phase = "comprehensive" ->
           << "nsynth", "ljspeech", "urmp", "fma_small", "libritts",
              "musicnet", "fma_large", "lakh_midi" >>
      [] OTHER -> << >>

\* auto_download_on_space: the phase chosen for the storage limit
SelectPhase(max_size_gb) ==
    IF max_size_gb >= 200 THEN "comprehensive"
    ELSE IF max_size_gb >= 100 THEN "balanced"
    ELSE "minimal"

\* what load_dataset can do: return or raise
HfOutcomes == {"ok", "failed"}

\* what the streamed download can do: run to completion, raise before the
\* output file is opened, raise after it was opened
UrlOutcomes == {"complete", "refused", "partial"}

\* DatasetManager.download_from_url for the dataset key, on the status st
\* and the cache files, the download doing url_out
download_from_url(key, st, files, url_out) ==
    IF files[key] # "absent"
    THEN [status |-> st, files |-> files, ret |-> TRUE,
          how |-> "file_exists", failures |-> 0]
    ELSE IF url_out = "complete"
    THEN [status |-> [st EXCEPT !.downloaded = @ \cup {key}],
          files |-> [files EXCEPT ![key] = "complete"],
          ret |-> TRUE, how |-> "url", failures |-> 0]
    ELSE [status |-> [st EXCEPT !.failed = @ \cup {key}],
          files |-> [files EXCEPT ![key] =
                        IF url_out = "partial" THEN "partial" ELSE @],
          ret |-> FALSE, how |-> "url_failed", failures |-> 1]

\* DatasetManager.download_dataset, load_dataset doing hf_out
download_dataset(key, st, files, hf_out, url_out) ==
    IF key \notin DatasetKeys
    THEN [status |-> st, files |-> files, ret |-> FALSE,
          how |-> "unknown", failures |-> 0]
    ELSE IF key \in st.downloaded
    THEN [status |-> st, files |-> files, ret |-> TRUE,
          how |-> "recorded", failures |-> 0]
    ELSE IF key \in HfKeys /\ hf_out = "ok"
    THEN [status |-> [st EXCEPT !.downloaded = @ \cup {key}],
          files |-> files, ret |-> TRUE, how |-> "hf", failures |-> 0]
    ELSE LET hf_failed == key \in HfKeys
             after_hf == IF hf_failed
                         THEN [st EXCEPT !.failed = @ \cup {key}] ELSE st
             hf_failures == IF hf_failed THEN 1 ELSE 0 IN
         IF key \in UrlKeys
         THEN LET r == download_from_url(key, after_hf, files, url_out) IN
              [r EXCEPT !.failures = @ + hf_failures]
         ELSE [status |-> after_hf, files |-> files, ret |-> FALSE,
               how |-> "no_method", failures |-> hf_failures]

(* ------------------- the mixer applied to drawn inputs ---------------- *)

VARIABLES
    fn,          \* the AudioMixer method being called
    arg_stems,   \* the StemSet handed to mix_stems
    arg_clips,   \* the clip sequence handed to _chain_with_crossfade
    arg_audio,   \* the buffer handed to master
    cs,          \* crossfade_samples = int(crossfade_duration * sample_rate)
    returned,    \* whether the call has returned or raised
    ret          \* its result: Ok(buffer), or Err when it raised

VARIABLES
    sample_rate,         \* audio.sample_rate of the configuration, read by
                         \* the mixer, the processor and the file manager
    gen_sample_rate,     \* MusicGenerator.sample_rate
    clip_len,            \* int(clip_duration * sample_rate) of the generator
    ace_step_available,  \* MusicGenerator.ace_step_available
    musicgen_available,  \* MusicGenerator.musicgen_available
    selected_model,      \* MusicGenerator.selected_model
    active_model_type,   \* MusicGenerator.active_model_type
    pipeline,            \* the model MusicGenerator.pipeline was built for
    startup_model,       \* the model automatic selection chose at start-up
    demucs_loaded,       \* AudioProcessor.demucs_model is not None
    pc,                  \* position of generate_song
    num_clips,           \* its argument num_clips
    model_choice,        \* its argument model_choice
    clip_index,          \* index i of the loop generate_song is in
    clips,               \* clips generated so far
    processed_clips,     \* StemSets returned by process_clip so far
    mixed_clips,         \* chain_clips: clips mixed so far
    chained,             \* chain_clips: result of _chain_with_crossfade
    final_audio,         \* result of chain_clips
    saved,               \* buffers written by save_output
    save_ret,            \* what save_output gave back to generate_song
    result,              \* what generate_song returned
    log,                 \* the collaborator calls made by the request
    gen_call,            \* the generate_clip call that has just returned:
                         \* what it was given and what it gave
    raised               \* the generate_clip / process_clip call that raised

VARIABLES
    req_pc,      \* position of each running generate_song call
    req_num,     \* its argument num_clips
    req_choice,  \* its argument model_choice
    req_clips,   \* number of clips it has generated
    req_model    \* the model its running generate_clip call is routed to

VARIABLES
    now,         \* the second datetime.now() is in
    output_dir,  \* FileManager.output_dir: what is stored under each name
    save_calls   \* the save_output calls made, with what each returned

VARIABLES
    chain_rate,   \* AudioMixer.sample_rate of a chain given by durations
    chain_xfade,  \* AudioMixer.crossfade_duration, in seconds
    chain_secs,   \* the duration of each clip of the chain, in seconds
    chain_total   \* the length of the chained result, in samples

lenvars == << chain_rate, chain_xfade, chain_secs, chain_total >>

VARIABLES
    mixed_sum     \* mix_stems: the accumulator mixed before normalization

mixvars ==
    << fn, arg_stems, arg_clips, arg_audio, returned, ret, mixed_sum,
       lenvars >>

savevars == << now, output_dir, save_calls >>

VARIABLES
    status,         \* DatasetManager.status: the keys under "downloaded"
                    \* and under "failed"
    cache_files,    \* cache_dir: what is stored as <key>.tar.gz
    dm_pc,          \* position of auto_download_on_space
    auto_call,      \* the auto_download_on_space call running or last made
    last_download,  \* the download_dataset call that returned last
    net_failures,   \* downloads that have failed
    dm_calls        \* calls made to the DatasetManager

datavars ==
    << status, cache_files, dm_pc, auto_call, last_download, net_failures,
       dm_calls >>

concvars == << req_pc, req_num, req_choice, req_clips, req_model >>

songvars ==
    << sample_rate, gen_sample_rate, pipeline, startup_model, gen_call,
       demucs_loaded, clip_len,
       ace_step_available, musicgen_available, selected_model,
       active_model_type, pc, num_clips, model_choice, clip_index, clips,
       processed_clips, mixed_clips, chained, final_audio, saved, save_ret,
       result, log, raised >>

vars == << mixvars, cs, songvars, concvars, savevars, datavars >>

\* all sequences over S of length lo..hi
SeqsOf(S, lo, hi) == UNION {[1..n -> S] : n \in lo..hi}

\* a clip of constant amplitude a
ConstClip(n, a) == [k \in 1..n |-> a]

\* a clip alternating between the amplitudes a and b
AltClip(n, a, b) == [k \in 1..n |-> IF k % 2 = 1 THEN a ELSE b]

\* sample values of the drawn stems
StemSamples == {-80, 0, 60}

\* the drawn stem buffers: constant ones, silence among them, and
\* alternating ones
StemBuffers ==
    {ConstClip(n, a) : n \in 0..MaxStemLen, a \in StemSamples}
    \cup {AltClip(n, 60, -80) : n \in 2..MaxStemLen}

\* stem names of the drawn StemSets
DrawnNames == {"vocals", "drums", "synth"}

\* the StemSet of the stem-mixing test: constant stems of amplitude 0.8,
\* 0.6, 0.7 and 0.5
VolumeTestStems ==
    << [name |-> "vocals", audio |-> ConstClip(MaxStemLen, 80)],
       [name |-> "bass", audio |-> ConstClip(MaxStemLen, 60)],
       [name |-> "drums", audio |-> ConstClip(MaxStemLen, 70)],
       [name |-> "other", audio |-> ConstClip(MaxStemLen, 50)] >>

StemSets ==
    {s \in SeqsOf([name : DrawnNames, audio : StemBuffers], 0, MaxStems) :
        \A j, k \in 1..Len(s) : j # k => s[j].name # s[k].name}
    \cup {VolumeTestStems}

\* amplitudes of the drawn clips
ClipAmps == {50, -80}

Clips ==
    {ConstClip(n, a) : n \in 0..MaxLen, a \in ClipAmps}
    \cup {AltClip(n, 50, -80) : n \in 2..MaxLen}

ClipSeqs == SeqsOf(Clips, 0, MaxClips)

\* sample values of the buffers drawn for master
MasterSamples == {-120, 0, 33, 45, 90}

MasterBuffers == SeqsOf(MasterSamples, 0, MaxLen)

\* the worker threads that run generate_song on the one LEMMInterface
Requests == 1..MaxRequests

\* no request is running on a worker thread
ConcIdle ==
    /\ req_pc = [r \in Requests |-> "idle"]
    /\ req_num = [r \in Requests |-> 0]
    /\ req_choice = [r \in Requests |-> "Auto (Recommended)"]
    /\ req_clips = [r \in Requests |-> 0]
    /\ req_model = [r \in Requests |-> "none"]

\* a file name made of a timestamp: lemm_song_<%Y%m%d_%H%M%S>.wav has no
\* microsecond field (usec = -1), lemm_song_<%Y%m%d_%H%M%S_%f>.wav has one
FileNames == [sec : 0..MaxTime, usec : -1..MaxMicro]

Absent == [format |-> "absent", data |-> << >>]

\* the FileManager has saved nothing
SaveIdle ==
    /\ now = 0
    /\ output_dir = [f \in FileNames |-> Absent]
    /\ save_calls = << >>

\* no auto_download_on_space call has been made
NoAutoCall ==
    [max_size_gb |-> 0, phase |-> "none", index |-> 0, successful |-> 0,
     failed |-> 0, ret |-> "none"]

\* no download_dataset call has returned
NoDownload == [key |-> "none", ret |-> FALSE, how |-> "none"]

\* a DatasetManager on an empty cache directory, no call made
FreshManager ==
    /\ status = [downloaded |-> {}, failed |-> {}]
    /\ cache_files = [k \in UrlKeys |-> "absent"]
    /\ dm_pc = "idle"
    /\ auto_call = NoAutoCall
    /\ last_download = NoDownload
    /\ net_failures = 0

\* the DatasetManager is not in use
DataIdle == FreshManager /\ dm_calls = 0

\* no chain is given by its durations
LenIdle ==
    /\ chain_rate = 0
    /\ chain_xfade = 0
    /\ chain_secs = << >>
    /\ chain_total = 0

\* no request has been made
NoResult == [path |-> "None", info |-> "pending"]

NoCall == [op |-> "none", idx |-> -1, at |-> 0]

\* no generate_clip call has just returned
NoGenCall ==
    [idx |-> -1, model |-> "none", previous_clip |-> None,
     conditioning |-> None, raw |-> << >>, clip |-> << >>]

RequestIdle ==
    /\ pc = "idle"
    /\ num_clips = 0
    /\ model_choice = "Auto (Recommended)"
    /\ clip_index = 0
    /\ clips = << >>
    /\ processed_clips = << >>
    /\ mixed_clips = << >>
    /\ chained = << >>
    /\ final_audio = << >>
    /\ saved = << >>
    /\ save_ret = "pending"
    /\ result = NoResult
    /\ log = << >>
    /\ gen_call = NoGenCall
    /\ raised = NoCall

\* the mixer alone: no generator, no request
SongIdle ==
    /\ sample_rate = 0
    /\ gen_sample_rate = 0
    /\ clip_len = 0
    /\ ace_step_available = FALSE
    /\ musicgen_available = FALSE
    /\ selected_model = "none"
    /\ active_model_type = "none"
    /\ pipeline = "none"
    /\ startup_model = "none"
    /\ demucs_loaded = FALSE
    /\ RequestIdle

InitMix ==
    /\ returned = FALSE
    /\ ret = Err
    /\ mixed_sum = Err
    /\ SongIdle
    /\ ConcIdle
    /\ SaveIdle
    /\ DataIdle
    /\ LenIdle
    /\ \/ /\ fn = "mix_stems"
          /\ arg_stems \in StemSets
          /\ arg_clips = << >> /\ arg_audio = << >> /\ cs = 0
       \/ /\ fn = "chain_with_crossfade"
          /\ arg_clips \in ClipSeqs
          /\ cs \in 0..MaxCrossfade
          /\ arg_stems = << >> /\ arg_audio = << >>
       \/ /\ fn = "master"
          /\ arg_audio \in MasterBuffers
          /\ arg_stems = << >> /\ arg_clips = << >> /\ cs = 0

CallMixStems ==
    /\ fn = "mix_stems" /\ ~returned
    /\ ret' = mix_stems(arg_stems)
    /\ mixed_sum' = MixAccumulator(arg_stems)
    /\ returned' = TRUE
    /\ UNCHANGED << fn, arg_stems, arg_clips, arg_audio, cs, songvars,
                    concvars, savevars, datavars, lenvars >>

CallChainWithCrossfade ==
    /\ fn = "chain_with_crossfade" /\ ~returned
    /\ ret' = chain_with_crossfade(arg_clips, cs)
    /\ returned' = TRUE
    /\ UNCHANGED << fn, arg_stems, arg_clips, arg_audio, cs, mixed_sum,
                    songvars, concvars, savevars, datavars, lenvars >>

CallMaster ==
    /\ fn = "master" /\ ~returned
    /\ ret' = master(arg_audio)
    /\ returned' = TRUE
    /\ UNCHANGED << fn, arg_stems, arg_clips, arg_audio, cs, mixed_sum,
                    songvars, concvars, savevars, datavars, lenvars >>

NextMix == CallMixStems \/ CallChainWithCrossfade \/ CallMaster

Init == InitMix

Next == NextMix

Spec == Init /\ [][Next]_vars

(* ---------- LEMMInterface.generate_song (gradio_interface.py) --------- *)

ModelChoices == {"Auto (Recommended)", "ACE-Step (GPU)", "MusicGen (CPU)"}

\* the mixer is not under test
MixIdle ==
    /\ LenIdle
    /\ fn = "none"
    /\ arg_stems = << >>
    /\ arg_clips = << >>
    /\ arg_audio = << >>
    /\ returned = FALSE
    /\ ret = Err
    /\ mixed_sum = Err

\* the sample rates drawn for the configuration
ConfigRates == 1..MaxRate

\* LEMMInterface.__init__: the generator has selected an available model,
\* the mixer has read its crossfade duration
InitSong ==
    /\ MixIdle
    /\ ConcIdle
    /\ SaveIdle
    /\ DataIdle
    /\ sample_rate \in ConfigRates
    /\ cs \in 0..MaxCrossfade
    /\ clip_len \in 1..MaxSongLen
    /\ ace_step_available \in BOOLEAN
    /\ musicgen_available \in BOOLEAN
    /\ selected_model \in
          {m \in {"ace_step", "musicgen"} :
              \/ m = "ace_step" /\ ace_step_available
              \/ m = "musicgen" /\ musicgen_available}
    /\ active_model_type = selected_model
    /\ startup_model = selected_model
    /\ pipeline = active_model_type
    /\ gen_sample_rate = GeneratorRate(active_model_type, sample_rate)
    /\ demucs_loaded = FALSE
    /\ RequestIdle

Call(op, idx, buf) == [op |-> op, idx |-> idx, buf |-> buf]

\* the exception is swallowed and the loop carries on
HandleException_Swallowed ==
    /\ pc' = pc
    /\ result' = result

\* the except clause of generate_song: return None and the error message
HandleException ==
    /\ pc' = "done"
    /\ result' = [path |-> "None", info |-> "Generation Error"]

\* f"Clip {i+1} is silent! Generation failed." for clip number n
SilentClipMessage(n) ==
    CASE n = 1 -> "Clip 1 is silent! Generation failed."
      [] n = 2 -> "Clip 2 is silent! Generation failed."
      [] n = 3 -> "Clip 3 is silent! Generation failed."
      [] OTHER -> "Clip n is silent! Generation failed."

\* an early return None, error_msg
ReturnError(msg) ==
    /\ pc' = "done"
    /\ result' = [path |-> "None", info |-> msg]

\* everything is put under 'vocals'
FallbackStems_UnderVocals(clip) ==
    << [name |-> "vocals", audio |-> clip],
       [name |-> "bass", audio |-> Zeros(Len(clip))],
       [name |-> "drums", audio |-> Zeros(Len(clip))],
       [name |-> "other", audio |-> Zeros(Len(clip))] >>

\* process_clip without a separation model: everything under 'other'
FallbackStems(clip) ==
    << [name |-> "vocals", audio |-> Zeros(Len(clip))],
       [name |-> "bass", audio |-> Zeros(Len(clip))],
       [name |-> "drums", audio |-> Zeros(Len(clip))],
       [name |-> "other", audio |-> clip] >>

\* process_clip with a separation model whose run fell back to the mock
\* split, enhanced without pedalboard
MockStems(clip) ==
    << [name |-> "vocals", audio |-> ScaleArray(clip, 30)],
       [name |-> "bass", audio |-> ScaleArray(ScaleArray(clip, 25), 105)],
       [name |-> "drums", audio |-> ScaleArray(ScaleArray(clip, 25), 103)],
       [name |-> "other", audio |-> ScaleArray(clip, 20)] >>

\* the StemSet process_clip returns: separated and enhanced stems when the
\* separation model is there, the fallback when it is not
ProcessedStems(clip, model_loaded) ==
    IF model_loaded THEN MockStems(clip) ELSE FallbackStems(clip)

\* audio_to_save / max_val * 0.95 of save_output
NormalizeSave(audio) ==
    LET max_val == Peak(audio) IN
    IF max_val > 0
    THEN [k \in 1..Len(audio) |-> Mul(Div(audio[k], max_val), SAVE_PEAK)]
    ELSE audio

configvars ==
    << sample_rate, gen_sample_rate, cs, clip_len, ace_step_available,
       musicgen_available, pipeline, startup_model >>

\* what no step of generate_song changes
outervars == << mixvars, concvars, savevars, datavars, configvars >>

\* the UI calls generate_song
StartRequest ==
    /\ pc = "idle"
    /\ result = NoResult
    /\ pc' = "analyze"
    /\ num_clips' \in 0..MaxSongClips
    /\ model_choice' \in ModelChoices
    /\ UNCHANGED << outervars, save_ret, gen_call, demucs_loaded,
                    selected_model, active_model_type, clip_index, clips,
                    processed_clips, mixed_clips, chained, final_audio, saved,
                    result, log, raised >>

\* prompt analysis, then the handling of the model choice
Analyze ==
    /\ pc = "analyze"
    /\ log' = Append(log, Call("analyze", -1, << >>))
    /\ \/ /\ model_choice = "Auto (Recommended)"
          /\ pc' = "generate"
          /\ UNCHANGED << selected_model, active_model_type, result >>
       \/ /\ model_choice = "ACE-Step (GPU)"
          /\ IF ace_step_available
             THEN /\ selected_model' = "ace_step"
                  /\ active_model_type' = "ace_step"
                  /\ pc' = "generate"
                  /\ UNCHANGED result
             ELSE /\ ReturnError("ACE-Step not available")
                  /\ UNCHANGED << selected_model, active_model_type >>
       \/ /\ model_choice = "MusicGen (CPU)"
          /\ IF musicgen_available
             THEN /\ selected_model' = "musicgen"
                  /\ active_model_type' = "musicgen"
                  /\ pc' = "generate"
                  /\ UNCHANGED result
             ELSE /\ ReturnError("MusicGen not available")
                  /\ UNCHANGED << selected_model, active_model_type >>
    /\ clip_index' = 0
    /\ clips' = << >>
    /\ UNCHANGED << outervars, save_ret, gen_call, demucs_loaded, num_clips,
                    model_choice, processed_clips, mixed_clips, chained,
                    final_audio, saved, raised >>

\* generate_clip validates that the active model is available
ActiveModelAvailable ==
    \/ active_model_type = "ace_step" /\ ace_step_available
    \/ active_model_type = "musicgen" /\ musicgen_available

\* the raw audio the pipeline can return for a clip of n samples: of the
\* length asked for, a sample short or a sample long; silence included
RawClips(n) ==
    {ConstClip(n, 50), ConstClip(n, 0), AltClip(n, 50, -80),
     ConstClip(n - 1, 50), AltClip(n + 1, 50, -80)}

\* _generate_with_ace_step raises on audio that is empty or silent
AceStepRejects(raw) == Len(raw) = 0 \/ BelowSilence(Peak(raw))

\* the conditioning of a generate_clip call: _generate_clip_ace_step takes it
\* from the previous clip, _generate_clip_musicgen does not support it
Conditioning(model_type, previous_clip, rate) ==
    IF model_type = "ace_step" /\ previous_clip.some
    THEN Some(generate_conditioning(previous_clip.buf, rate))
    ELSE None

\* one iteration of the generation loop: generate_clip is handed the last
\* clip generated; it raises, or structures the raw audio of the pipeline
\* and returns it; a silent clip ends the request, any other is kept
GenerateClip ==
    /\ pc = "generate"
    /\ clip_index < num_clips
    /\ log' = Append(log, Call("generate_clip", clip_index, << >>))
    /\ \/ /\ raised' = [op |-> "generate_clip", idx |-> clip_index,
                          at |-> Len(log')]
          /\ HandleException
          /\ UNCHANGED << clips, clip_index, gen_call >>
       \/ /\ ActiveModelAvailable
          /\ \E raw \in RawClips(clip_len) :
                LET previous_clip == IF Len(clips) > 0
                                     THEN Some(clips[Len(clips)]) ELSE None
                    conditioning == Conditioning(active_model_type,
                                                 previous_clip,
                                                 gen_sample_rate)
                    clip == structure_clip(raw, clip_len) IN
                IF active_model_type = "ace_step" /\ AceStepRejects(raw)
                THEN /\ raised' = [op |-> "generate_clip",
                                    idx |-> clip_index, at |-> Len(log')]
                     /\ HandleException
                     /\ UNCHANGED << clips, clip_index, gen_call >>
                ELSE /\ gen_call' = [idx |-> clip_index,
                                      model |-> active_model_type,
                                      previous_clip |-> previous_clip,
                                      conditioning |-> conditioning,
                                      raw |-> raw,
                                      clip |-> clip]
                     /\ UNCHANGED raised
                     /\ IF BelowSilence(Peak(clip))
                        THEN /\ ReturnError(SilentClipMessage(clip_index + 1))
                             /\ UNCHANGED << clips, clip_index >>
                        ELSE /\ clips' = Append(clips, clip)
                             /\ clip_index' = clip_index + 1
                             /\ UNCHANGED << pc, result >>
    /\ UNCHANGED << outervars, save_ret, demucs_loaded, selected_model,
                    active_model_type, num_clips, model_choice,
                    processed_clips, mixed_clips, chained, final_audio,
                    saved >>

\* range(num_clips) is exhausted
EndGenerate ==
    /\ pc = "generate"
    /\ clip_index >= num_clips
    /\ pc' = "process"
    /\ clip_index' = 0
    /\ processed_clips' = << >>
    /\ gen_call' = NoGenCall
    /\ UNCHANGED << outervars, save_ret, demucs_loaded, selected_model,
                    active_model_type, num_clips, model_choice, clips,
                    mixed_clips, chained, final_audio, saved, result, log,
                    raised >>

\* one iteration of the processing loop: process_clip tries to load the
\* separation model when it has none, which leaves it there or still
\* missing; the call raises or returns the clip's StemSet
ProcessClip ==
    /\ pc = "process"
    /\ clip_index < Len(clips)
    /\ log' = Append(log, Call("process_clip", clip_index, << >>))
    /\ demucs_loaded' \in (IF demucs_loaded THEN {TRUE} ELSE BOOLEAN)
    /\ \/ /\ raised' = [op |-> "process_clip", idx |-> clip_index,
                          at |-> Len(log')]
          /\ HandleException
          /\ UNCHANGED << processed_clips, clip_index >>
       \/ /\ processed_clips' =
                Append(processed_clips,
                       ProcessedStems(clips[clip_index + 1], demucs_loaded'))
          /\ clip_index' = clip_index + 1
          /\ UNCHANGED << pc, result, raised >>
    /\ UNCHANGED << outervars, save_ret, gen_call, selected_model,
                    active_model_type, num_clips, model_choice, clips,
                    mixed_clips, chained, final_audio, saved >>

\* enumerate(clips) is exhausted: chain_clips is entered
EndProcess ==
    /\ pc = "process"
    /\ clip_index >= Len(clips)
    /\ pc' = "mix"
    /\ clip_index' = 0
    /\ mixed_clips' = << >>
    /\ UNCHANGED << outervars, save_ret, gen_call, demucs_loaded,
                    selected_model, active_model_type, num_clips,
                    model_choice, clips, processed_clips, chained,
                    final_audio, saved, result, log, raised >>

\* chain_clips: one iteration of the loop mixing each clip's stems
MixClip ==
    /\ pc = "mix"
    /\ clip_index < Len(processed_clips)
    /\ log' = Append(log, Call("mix_stems", clip_index, << >>))
    /\ LET mixed == mix_stems(processed_clips[clip_index + 1]) IN
       IF mixed.ok
       THEN /\ mixed_clips' = Append(mixed_clips, mixed.buf)
            /\ clip_index' = clip_index + 1
            /\ UNCHANGED << pc, result >>
       ELSE /\ HandleException
            /\ UNCHANGED << mixed_clips, clip_index >>
    /\ UNCHANGED << outervars, save_ret, gen_call, demucs_loaded,
                    selected_model, active_model_type, num_clips,
                    model_choice, clips, processed_clips, chained,
                    final_audio, saved, raised >>

\* chain_clips: _chain_with_crossfade over the mixed clips, then the peak
\* of the chained audio is taken (which raises on an empty buffer)
ChainClips ==
    /\ pc = "mix"
    /\ clip_index >= Len(processed_clips)
    /\ log' = Append(log, Call("chain_with_crossfade", -1, << >>))
    /\ LET r == chain_with_crossfade(mixed_clips, cs) IN
       IF r.ok /\ Len(r.buf) > 0
       THEN /\ chained' = r.buf
            /\ pc' = "master"
            /\ UNCHANGED result
       ELSE /\ HandleException
            /\ UNCHANGED chained
    /\ UNCHANGED << outervars, save_ret, gen_call, demucs_loaded,
                    selected_model, active_model_type, num_clips,
                    model_choice, clip_index, clips, processed_clips,
                    mixed_clips, final_audio, saved, raised >>

\* chain_clips: master the chained audio and return it
Master ==
    /\ pc = "master"
    /\ LET r == master(chained) IN
       IF r.ok
       THEN /\ final_audio' = r.buf
            /\ log' = Append(log, Call("master", -1, r.buf))
            /\ pc' = "save"
            /\ UNCHANGED result
       ELSE /\ log' = Append(log, Call("master", -1, << >>))
            /\ HandleException
            /\ UNCHANGED final_audio
    /\ UNCHANGED << outervars, save_ret, gen_call, demucs_loaded,
                    selected_model, active_model_type, num_clips,
                    model_choice, clip_index, clips, processed_clips,
                    mixed_clips, chained, saved, raised >>

\* what generate_song can find in output_path once save_output has returned.
\* save_output itself returns the path of a regular file, as a string; by
\* the time generate_song looks at it the file can be gone or be replaced by
\* a directory.  The checks of generate_song also provide for a file manager
\* that returns None, an empty string or something that is no string.
SaveReturns == {"file", "missing", "directory", "None", "empty", "not_str"}

\* whatever save_output returned is taken for a file
VerifyOutputPath_Unchecked(output_path) == "ok"

\* the checks generate_song makes on output_path: the error message, or ok
VerifyOutputPath(output_path) ==
    CASE output_path \in {"None", "empty"} -> "No output path returned"
      [] output_path = "not_str" -> "Invalid output path type"
      [] output_path = "missing" -> "Output file not found"
      [] output_path = "directory" -> "Output path is not a valid file"
      [] OTHER -> "ok"

\* the unmastered chain is handed to save_output
SaveOutput_Unmastered ==
    /\ pc = "save"
    /\ log' = Append(log, Call("save_output", -1, chained))
    /\ \/ /\ save_ret' = "raised"
          /\ ReturnError("Error saving audio")
          /\ UNCHANGED saved
       \/ /\ save_ret' \in SaveReturns
          /\ saved' = Append(saved, NormalizeSave(chained))
          /\ IF VerifyOutputPath(save_ret') = "ok"
             THEN /\ pc' = "done"
                  /\ result' = [path |-> "file", info |-> "info"]
             ELSE ReturnError(VerifyOutputPath(save_ret'))
    /\ UNCHANGED << outervars, gen_call, demucs_loaded, selected_model,
                    active_model_type, num_clips, model_choice, clip_index,
                    clips, processed_clips, mixed_clips, chained,
                    final_audio, raised >>

\* save_output(final_audio) raises, or writes the normalized audio and
\* returns; generate_song then verifies the path it was given and returns
\* it, or None and an error message
SaveOutput ==
    /\ pc = "save"
    /\ log' = Append(log, Call("save_output", -1, final_audio))
    /\ \/ /\ save_ret' = "raised"
          /\ ReturnError("Error saving audio")
          /\ UNCHANGED saved
       \/ /\ save_ret' \in SaveReturns
          /\ saved' = Append(saved, NormalizeSave(final_audio))
          /\ IF VerifyOutputPath(save_ret') = "ok"
             THEN /\ pc' = "done"
                  /\ result' = [path |-> "file", info |-> "info"]
             ELSE ReturnError(VerifyOutputPath(save_ret'))
    /\ UNCHANGED << outervars, gen_call, demucs_loaded, selected_model,
                    active_model_type, num_clips, model_choice, clip_index,
                    clips, processed_clips, mixed_clips, chained,
                    final_audio, raised >>

NextSong ==
    \/ StartRequest
    \/ Analyze
    \/ GenerateClip
    \/ EndGenerate
    \/ ProcessClip
    \/ EndProcess
    \/ MixClip
    \/ ChainClips
    \/ Master
    \/ SaveOutput

SpecSong == InitSong /\ [][NextSong]_vars

(* ------- generate_song called from several worker threads at once ----- *)

\* create_interface builds one LEMMInterface, whose generate_song is the
\* handler of generate_btn.click: every request runs it on a worker thread
\* against the same MusicGenerator.  Neither generate_song nor generate_clip
\* takes a lock, so the steps of the requests interleave freely.
InitConc ==
    /\ MixIdle
    /\ RequestIdle
    /\ cs = 0
    /\ clip_len = 1
    /\ ace_step_available \in BOOLEAN
    /\ musicgen_available \in BOOLEAN
    /\ selected_model \in
          {m \in {"ace_step", "musicgen"} :
              \/ m = "ace_step" /\ ace_step_available
              \/ m = "musicgen" /\ musicgen_available}
    /\ active_model_type = selected_model
    /\ startup_model = selected_model
    /\ pipeline = active_model_type
    /\ sample_rate = DEFAULT_SAMPLE_RATE
    /\ gen_sample_rate = GeneratorRate(active_model_type, sample_rate)
    /\ demucs_loaded = FALSE
    /\ ConcIdle
    /\ SaveIdle
    /\ DataIdle

requestvars ==
    << pc, num_clips, model_choice, clip_index, clips, processed_clips,
       mixed_clips, chained, final_audio, saved, save_ret, result, log,
       gen_call, raised >>

\* a request arrives and generate_song is entered on thread r
ConcStart(r) ==
    /\ req_pc[r] = "idle"
    /\ req_pc' = [req_pc EXCEPT ![r] = "select"]
    /\ \E n \in 0..MaxSongClips : req_num' = [req_num EXCEPT ![r] = n]
    /\ \E c \in ModelChoices : req_choice' = [req_choice EXCEPT ![r] = c]
    /\ UNCHANGED << mixvars, savevars, datavars, configvars, requestvars,
                    demucs_loaded, selected_model, active_model_type,
                    req_clips, req_model >>

\* thread r analyzes the prompt and handles the model choice, writing the
\* choice into the shared generator
ConcSelect(r) ==
    /\ req_pc[r] = "select"
    /\ \/ /\ req_choice[r] = "Auto (Recommended)"
          /\ req_pc' = [req_pc EXCEPT ![r] = "loop"]
          /\ UNCHANGED << selected_model, active_model_type >>
       \/ /\ req_choice[r] = "ACE-Step (GPU)"
          /\ IF ace_step_available
             THEN /\ selected_model' = "ace_step"
                  /\ active_model_type' = "ace_step"
                  /\ req_pc' = [req_pc EXCEPT ![r] = "loop"]
             ELSE /\ req_pc' = [req_pc EXCEPT ![r] = "done"]
                  /\ UNCHANGED << selected_model, active_model_type >>
       \/ /\ req_choice[r] = "MusicGen (CPU)"
          /\ IF musicgen_available
             THEN /\ selected_model' = "musicgen"
                  /\ active_model_type' = "musicgen"
                  /\ req_pc' = [req_pc EXCEPT ![r] = "loop"]
             ELSE /\ req_pc' = [req_pc EXCEPT ![r] = "done"]
                  /\ UNCHANGED << selected_model, active_model_type >>
    /\ UNCHANGED << mixvars, savevars, datavars, configvars, requestvars,
                    demucs_loaded, req_num, req_choice, req_clips, req_model >>

\* thread r calls generate_clip: the call starts executing on the shared
\* pipeline whatever the other threads are doing
ConcEnterGenerateClip(r) ==
    /\ req_pc[r] = "loop"
    /\ req_clips[r] < req_num[r]
    /\ req_pc' = [req_pc EXCEPT ![r] = "generate_clip"]
    /\ req_model' = [req_model EXCEPT ![r] = active_model_type]
    /\ UNCHANGED << mixvars, savevars, datavars, configvars, requestvars,
                    demucs_loaded, selected_model, active_model_type, req_num,
                    req_choice, req_clips >>

\* the generate_clip call of thread r raises or returns a silent clip, which
\* ends the request, or returns a clip that is kept
ConcReturnGenerateClip(r) ==
    /\ req_pc[r] = "generate_clip"
    /\ \/ /\ req_pc' = [req_pc EXCEPT ![r] = "done"]
          /\ UNCHANGED req_clips
       \/ /\ ActiveModelAvailable
          /\ req_pc' = [req_pc EXCEPT ![r] = "loop"]
          /\ req_clips' = [req_clips EXCEPT ![r] = req_clips[r] + 1]
    /\ UNCHANGED << mixvars, savevars, datavars, configvars, requestvars,
                    demucs_loaded, selected_model, active_model_type, req_num,
                    req_choice, req_model >>

\* thread r has its clips: processing, mixing and saving, none of which
\* touches the generator
ConcFinish(r) ==
    /\ req_pc[r] = "loop"
    /\ req_clips[r] >= req_num[r]
    /\ req_pc' = [req_pc EXCEPT ![r] = "done"]
    /\ UNCHANGED << mixvars, savevars, datavars, configvars, requestvars,
                    demucs_loaded, selected_model, active_model_type, req_num,
                    req_choice, req_clips, req_model >>

NextConc ==
    \E r \in Requests :
        \/ ConcStart(r)
        \/ ConcSelect(r)
        \/ ConcEnterGenerateClip(r)
        \/ ConcReturnGenerateClip(r)
        \/ ConcFinish(r)

SpecConc == InitConc /\ [][NextConc]_vars

(* ------------- FileManager.save_output (file_manager.py) -------------- *)

\* FileManager.__init__ on an empty output directory; no song is generated
InitSave ==
    /\ MixIdle
    /\ SongIdle
    /\ ConcIdle
    /\ cs = 0
    /\ SaveIdle
    /\ DataIdle

\* the audio handed to save_output
SaveAudio == {<< 50, -80 >>, << -80, 50 >>, << 0, 0 >>}

\* datetime.now().strftime("%Y%m%d_%H%M%S"): the clock to the second
Timestamp(t) == [sec |-> t, usec |-> -1]

\* the filename of a call without one: lemm_song_<timestamp>.wav, at time
\* t seconds and u microseconds
DefaultFileName(t, u) == Timestamp(t)

\* the filename tried after a PermissionError: the timestamp with %f
AltFileName(t, u) == [sec |-> t, usec |-> u]

\* (audio_to_save * 32767).astype(np.int16): truncation toward zero
ToInt16(audio) ==
    [k \in 1..Len(audio) |->
        Sgn(audio[k]) * ((Abs(audio[k]) * INT16_MAX) \div SCALE)]

WavFloat(audio) == [format |-> "float32", data |-> audio]

WavInt16(audio) == [format |-> "int16", data |-> ToInt16(audio)]

SaveRaised == [ok |-> FALSE, path |-> Timestamp(-1), written |-> Absent]

SaveReturned(path, wav) == [ok |-> TRUE, path |-> path, written |-> wav]

\* a second of the wall clock passes
Tick ==
    /\ now < MaxTime
    /\ now' = now + 1
    /\ UNCHANGED << mixvars, cs, songvars, concvars, datavars, output_dir,
                    save_calls >>

\* save_output(audio) without a filename: the file is written with
\* soundfile; after a PermissionError it is written under the alternative
\* name; after any other error it is written with scipy as int16; when the
\* second attempt fails too the call raises
CallSaveOutput ==
    /\ Len(save_calls) < MaxSaves
    /\ \E audio \in SaveAudio, u \in 0..MaxMicro :
          LET output_path == DefaultFileName(now, u)
              alt_path == AltFileName(now, u)
              audio_to_save == NormalizeSave(audio) IN
          \/ /\ output_dir' =
                   [output_dir EXCEPT ![output_path] = WavFloat(audio_to_save)]
             /\ save_calls' =
                   Append(save_calls,
                          SaveReturned(output_path, WavFloat(audio_to_save)))
          \/ /\ output_dir' =
                   [output_dir EXCEPT ![alt_path] = WavFloat(audio_to_save)]
             /\ save_calls' =
                   Append(save_calls,
                          SaveReturned(alt_path, WavFloat(audio_to_save)))
          \/ /\ output_dir' =
                   [output_dir EXCEPT ![output_path] = WavInt16(audio_to_save)]
             /\ save_calls' =
                   Append(save_calls,
                          SaveReturned(output_path, WavInt16(audio_to_save)))
          \/ /\ save_calls' = Append(save_calls, SaveRaised)
             /\ UNCHANGED output_dir
    /\ UNCHANGED << mixvars, cs, songvars, concvars, datavars, now >>

NextSave == Tick \/ CallSaveOutput

SpecSave == InitSave /\ [][NextSave]_vars

(* ------------- chains given by the durations of their clips ----------- *)

\* the sample rates of the two generators
ChainRates == {DEFAULT_SAMPLE_RATE, MUSICGEN_SAMPLE_RATE}

\* int(self.clip_duration * self.sample_rate), for whole seconds
ClipSamples(clip_duration, rate) == clip_duration * rate

\* the clips' lengths in samples
ClipLengths(secs, rate) ==
    [j \in 1..Len(secs) |-> ClipSamples(secs[j], rate)]

\* the chains drawn: one to MaxClips clips of whole seconds, none shorter
\* than the crossfade
ChainDurations(crossfade_duration) ==
    UNION {[1..n -> {d \in 1..MaxSeconds : d >= crossfade_duration}]
           : n \in 1..MaxClips}

InitLen ==
    /\ chain_rate \in ChainRates
    /\ chain_xfade \in 0..MaxCrossfadeSeconds
    /\ chain_secs \in ChainDurations(chain_xfade)
    /\ chain_total = -1
    /\ cs = CrossfadeSamples(chain_xfade, chain_rate)
    /\ fn = "none"
    /\ arg_stems = << >>
    /\ arg_clips = << >>
    /\ arg_audio = << >>
    /\ returned = FALSE
    /\ ret = Err
    /\ mixed_sum = Err
    /\ SongIdle
    /\ ConcIdle
    /\ SaveIdle
    /\ DataIdle

\* _chain_with_crossfade on clips of the drawn durations
ChainByLength ==
    /\ chain_total = -1
    /\ chain_total' = ChainedLength(ClipLengths(chain_secs, chain_rate), cs)
    /\ UNCHANGED << chain_rate, chain_xfade, chain_secs, cs, fn, arg_stems,
                    arg_clips, arg_audio, returned, ret, mixed_sum, songvars,
                    concvars, savevars, datavars >>

NextLen == ChainByLength

SpecLen == InitLen /\ [][NextLen]_vars

(* ------------------ calls made to the DatasetManager ------------------ *)

InitData ==
    /\ MixIdle
    /\ SongIdle
    /\ ConcIdle
    /\ cs = 0
    /\ SaveIdle
    /\ FreshManager
    /\ dm_calls = 0

\* the dataset keys download_dataset is called with
CalledKeys == DatasetKeys \cup {"unknown"}

\* the storage limits auto_download_on_space is called with, in GB
StorageLimits == {50, 100, 150, 200}

\* a call of download_dataset from outside
CallDownloadDataset ==
    /\ dm_pc = "idle"
    /\ dm_calls < MaxDataCalls
    /\ \E key \in CalledKeys, hf_out \in HfOutcomes, url_out \in UrlOutcomes :
          LET r == download_dataset(key, status, cache_files, hf_out,
                                    url_out) IN
          /\ net_failures + r.failures <= MaxNetFailures
          /\ status' = r.status
          /\ cache_files' = r.files
          /\ last_download' = [key |-> key, ret |-> r.ret, how |-> r.how]
          /\ net_failures' = net_failures + r.failures
    /\ dm_calls' = dm_calls + 1
    /\ UNCHANGED << dm_pc, auto_call, mixvars, cs, songvars, concvars,
                    savevars >>

\* auto_download_on_space up to the loop of download_phase
StartAutoDownload ==
    /\ dm_pc = "idle"
    /\ dm_calls < MaxDataCalls
    /\ \E max_size_gb \in StorageLimits :
          auto_call' = [max_size_gb |-> max_size_gb,
                        phase |-> SelectPhase(max_size_gb),
                        index |-> 1, successful |-> 0, failed |-> 0,
                        ret |-> "running"]
    /\ dm_pc' = "phase"
    /\ dm_calls' = dm_calls + 1
    /\ UNCHANGED << status, cache_files, last_download, net_failures,
                    mixvars, cs, songvars, concvars, savevars >>

\* one turn of the loop of download_phase, skip_existing = True
PhaseStep ==
    /\ dm_pc = "phase"
    /\ auto_call.index <= Len(PhaseDatasets(auto_call.phase))
    /\ LET dataset_key == PhaseDatasets(auto_call.phase)[auto_call.index] IN
       IF dataset_key \in status.downloaded
       THEN /\ auto_call' = [auto_call EXCEPT !.index = @ + 1,
                                              !.successful = @ + 1]
            /\ UNCHANGED << status, cache_files, last_download,
                            net_failures >>
       ELSE \E hf_out \in HfOutcomes, url_out \in UrlOutcomes :
               LET r == download_dataset(dataset_key, status, cache_files,
                                         hf_out, url_out) IN
               /\ net_failures + r.failures <= MaxNetFailures
               /\ status' = r.status
               /\ cache_files' = r.files
               /\ last_download'
                    = [key |-> dataset_key, ret |-> r.ret, how |-> r.how]
               /\ net_failures' = net_failures + r.failures
               /\ auto_call'
                    = [auto_call EXCEPT
                         !.index = @ + 1,
                         !.successful = IF r.ret THEN @ + 1 ELSE @,
                         !.failed = IF r.ret THEN @ ELSE @ + 1]
    /\ UNCHANGED << dm_pc, dm_calls, mixvars, cs, songvars, concvars,
                    savevars >>

\* the loop is over: return successful > 0
FinishAutoDownload ==
    /\ dm_pc = "phase"
    /\ auto_call.index > Len(PhaseDatasets(auto_call.phase))
    /\ auto_call' = [auto_call EXCEPT
                        !.ret = IF auto_call.successful > 0
                                THEN "True" ELSE "False"]
    /\ dm_pc' = "idle"
    /\ UNCHANGED << status, cache_files, last_download, net_failures,
                    dm_calls, mixvars, cs, songvars, concvars, savevars >>

NextData ==
    \/ CallDownloadDataset
    \/ StartAutoDownload
    \/ PhaseStep
    \/ FinishAutoDownload

SpecData == InitData /\ [][NextData]_vars

(* ------------------------- claims on the mixer ------------------------ *)

\* the chainer has returned or raised on at least one clip, none of them
\* shorter than the crossfade
ChainedLongClips ==
    /\ fn = "chain_with_crossfade" /\ returned
    /\ Len(arg_clips) >= 1
    /\ \A j \in 1..Len(arg_clips) : Len(arg_clips[j]) >= cs

\* C1: for N >= 1 clips, each at least crossfade_samples long, the chainer
\* returns a buffer of exactly sum(lengths) - (N-1) * crossfade_samples
\* samples
C1_ChainLength ==
    ChainedLongClips =>
        /\ ret.ok
        /\ Len(ret.buf) = SumLen(arg_clips, 1) - (Len(arg_clips) - 1) * cs

C1_Witness ==
    /\ ChainedLongClips
    /\ Len(arg_clips) = 3 /\ cs = 2
    /\ \A j \in 1..3 : Len(arg_clips[j]) = 3
    /\ ret.ok /\ Len(ret.buf) = 5

\* the chain before the final fade-out: every clip after the first is
\* crossfaded in and copied through, the last one included
RECURSIVE UnfadedLoop(_, _, _, _)
UnfadedLoop(cl, n, k, st) ==
    IF ~st.ok THEN Err
    ELSE IF k > Len(cl) THEN Ok(st.buf)
    ELSE UnfadedLoop(cl, n, k + 1,
                     IF k = 1 THEN ChainFirst(st, cl[k], n)
                     ELSE ChainMiddle(st, cl[k], n))

Unfaded(cl, n) ==
    IF Len(cl) = 1 THEN Ok(cl[1])
    ELSE UnfadedLoop(cl, n, 1,
                     [ok |-> TRUE, buf |-> Zeros(TotalSamples(cl, n)),
                      pos |-> 0])

\* a multiplier that falls from 1 on the first sample of the window to 0 on
\* the last
IsFadeRamp(m) ==
    /\ m[1] = SCALE
    /\ m[Len(m)] = 0
    /\ \A k \in 1..(Len(m) - 1) : m[k + 1] <= m[k]

\* C5 (as claimed; a window of at least two samples): every one of the last
\* crossfade_samples samples of the chained output is its pre-fade value
\* times a multiplier that falls from 1 at the start of the window to 0 at
\* the last sample
C5_TailFaded ==
    (ChainedLongClips /\ cs >= 2) =>
        /\ ret.ok
        /\ Len(ret.buf) >= cs
        /\ \E m \in {FadeCurve(cs), LinspaceDown(cs)} :
              /\ IsFadeRamp(m)
              /\ \A k \in 1..cs :
                    ret.buf[Len(ret.buf) - cs + k]
                      = Mul(Unfaded(arg_clips, cs).buf[Len(ret.buf) - cs + k],
                            m[k])

\* every clip is the constant clip of one and the same non-zero amplitude
SameConstantAmplitude(cl) ==
    \E a \in ClipAmps :
        \A j \in 1..Len(cl) : cl[j] = ConstClip(Len(cl[j]), a)

\* C6 (as claimed; a window of at least two samples): chaining clips of
\* constant non-zero amplitude, the last output sample is strictly smaller
\* in magnitude than the sample at the start of the final fade window
C6_EndQuieterThanWindowStart ==
    (ChainedLongClips /\ cs >= 2 /\ SameConstantAmplitude(arg_clips)) =>
        /\ ret.ok
        /\ Len(ret.buf) >= cs
        /\ Abs(ret.buf[Len(ret.buf)]) < Abs(ret.buf[Len(ret.buf) - cs + 1])

\* the chainer has returned or raised on a single clip shorter than the
\* crossfade
ChainedOneShortClip ==
    /\ fn = "chain_with_crossfade" /\ returned
    /\ Len(arg_clips) = 1
    /\ Len(arg_clips[1]) >= 1
    /\ Len(arg_clips[1]) < cs

\* C7 (as claimed): a single clip of length L < crossfade_samples is faded
\* whole: the output has length L, starts at the input's first sample and
\* ends at 0
C7_ShortClipFadedWhole ==
    ChainedOneShortClip =>
        /\ ret.ok
        /\ Len(ret.buf) = Len(arg_clips[1])
        /\ ret.buf[1] = arg_clips[1][1]
        /\ ret.buf[Len(ret.buf)] = 0

\* C7 (amended): a single clip of length 2 <= L < crossfade_samples is faded
\* whole: the output has length L, starts at the input's first sample and
\* ends at 0; a clip of one sample is returned unchanged
C7_ShortClipFadedWholeFromTwo ==
    ChainedOneShortClip =>
        /\ ret.ok
        /\ Len(ret.buf) = Len(arg_clips[1])
        /\ ret.buf[1] = arg_clips[1][1]
        /\ Len(arg_clips[1]) >= 2 => ret.buf[Len(ret.buf)] = 0
        /\ Len(arg_clips[1]) = 1 => ret.buf = arg_clips[1]

C7_Witness ==
    /\ ChainedOneShortClip
    /\ cs = 3 /\ arg_clips[1] = << 50, 50 >>
    /\ ret = Ok(<< 50, 0 >>)

\* the buffers of a StemSet all have the same length
EqualLengths(stems) ==
    \A j, k \in 1..Len(stems) : Len(stems[j].audio) = Len(stems[k].audio)

\* C8 (as claimed): mix_stems raises whenever the StemSet is empty or its
\* buffers differ in length
C8_MalformedStemSetRaises ==
    (fn = "mix_stems" /\ returned
        /\ (Len(arg_stems) = 0 \/ ~EqualLengths(arg_stems)))
    => ~ret.ok

\* the accumulator of mix_stems before normalization
WeightedSum(stems) == MixLoop(stems, 1, Zeros(Len(stems[1].audio))).buf

\* C9: the mix has peak <= 0.95; a weighted sum of peak > 0.95 is rescaled
\* as a whole to peak exactly 0.95, one of peak <= 0.95 is returned as it is
C9_MixHeadroom ==
    (fn = "mix_stems" /\ returned /\ ret.ok) =>
        LET acc == WeightedSum(arg_stems)
            peak == Peak(acc) IN
        /\ Peak(ret.buf) <= HEADROOM
        /\ Len(ret.buf) = Len(acc)
        /\ peak > HEADROOM =>
              /\ Peak(ret.buf) = HEADROOM
              /\ \A k \in 1..Len(acc) :
                    Abs(ret.buf[k] * peak - acc[k] * HEADROOM) < peak
        /\ peak <= HEADROOM => ret.buf = acc

C9_Witness ==
    /\ fn = "mix_stems" /\ returned /\ ret.ok
    /\ Len(arg_stems) = 2
    /\ Peak(WeightedSum(arg_stems)) > HEADROOM
    /\ Peak(ret.buf) = HEADROOM
    /\ \E k \in 1..Len(ret.buf) : Abs(ret.buf[k]) < HEADROOM

\* C10: on an input of peak > 0, master returns the input scaled by
\* 0.9 / peak: the output peak is exactly 0.9, no sample exceeds 0.9 and the
\* soft limiter changes no sample
C10_MasterNormalizes ==
    (fn = "master" /\ returned /\ Len(arg_audio) > 0 /\ Peak(arg_audio) > 0)
    =>
        LET peak == Peak(arg_audio) IN
        /\ ret.ok
        /\ Len(ret.buf) = Len(arg_audio)
        /\ Peak(ret.buf) = MASTER_PEAK
        /\ \A k \in 1..Len(ret.buf) :
              /\ Abs(ret.buf[k]) <= MASTER_PEAK
              /\ Abs(ret.buf[k] * peak - arg_audio[k] * MASTER_PEAK) < peak
              /\ ret.buf[k] = Mul(Div(arg_audio[k], peak), MASTER_PEAK)

C10_Witness ==
    /\ fn = "master" /\ returned
    /\ arg_audio = << -120, 45, 90 >>
    /\ ret = Ok(<< -90, 34, 68 >>)

\* C11: master is idempotent on non-silent input: for every x of peak > 0,
\* master(master(x)) equals master(x)
C11_MasterIdempotent ==
    (fn = "master" /\ returned /\ Len(arg_audio) > 0 /\ Peak(arg_audio) > 0)
    =>
        /\ ret.ok
        /\ master(ret.buf) = ret

C11_Witness ==
    /\ fn = "master" /\ returned
    /\ arg_audio = << 45, -120 >>
    /\ ret.ok
    /\ ret.buf # arg_audio
    /\ master(ret.buf) = Ok(<< 34, -90 >>)

\* every buffer of the StemSet is non-empty and all zero
AllZeroStems(stems) ==
    /\ Len(stems) >= 1
    /\ \A j \in 1..Len(stems) :
          /\ Len(stems[j].audio) >= 1
          /\ stems[j].audio = Zeros(Len(stems[j].audio))

\* C12: mix_stems on a StemSet whose buffers are all zero, and master on an
\* all-zero buffer, return an all-zero buffer of the same length: they do not
\* raise, and the division by the (zero) peak is not performed
C12_SilentInputSafe ==
    /\ (fn = "mix_stems" /\ returned /\ AllZeroStems(arg_stems)) =>
          /\ ret = Ok(Zeros(Len(arg_stems[1].audio)))
          /\ Peak(WeightedSum(arg_stems)) = 0
          /\ ~NormalizesMix(Peak(WeightedSum(arg_stems)))
    /\ (fn = "master" /\ returned /\ Len(arg_audio) >= 1
          /\ arg_audio = Zeros(Len(arg_audio))) =>
          /\ ret = Ok(Zeros(Len(arg_audio)))
          /\ Peak(arg_audio) = 0
          /\ ~NormalizesMaster(Peak(arg_audio))

C12_Witness ==
    /\ fn = "mix_stems" /\ returned
    /\ Len(arg_stems) = 2
    /\ AllZeroStems(arg_stems)
    /\ Len(arg_stems[2].audio) = 2
    /\ ret = Ok(<< 0, 0 >>)

\* the gain the mix is said to give to a stem, in units of 1 / SCALE
ClaimedGain(name) ==
    CASE name = "vocals" -> 100
      [] name = "drums" -> 85
      [] name = "bass" -> 80
      [] name = "other" -> 75
      [] OTHER -> 60

\* the stem's peak is at least 1e-6
Audible(audio) == Peak(audio) * 1000000 >= SCALE

\* sample k of the sum of gain * stem over the audible stems from j on, the
\* products kept at full resolution: in units of 1 / (SCALE * SCALE)
RECURSIVE ExactSumAt(_, _, _)
ExactSumAt(stems, j, k) ==
    IF j > Len(stems) THEN 0
    ELSE (IF Audible(stems[j].audio)
          THEN At(stems[j].audio, k) * ClaimedGain(stems[j].name) ELSE 0)
         + ExactSumAt(stems, j + 1, k)

\* mix_stems has returned on the StemSet vocals 0.8, drums 0.7, bass 0.6,
\* other 0.5
MixedVolumeTest ==
    /\ fn = "mix_stems" /\ returned
    /\ Len(arg_stems) = 4
    /\ \A j \in 1..4 :
          /\ Len(arg_stems[j].audio) >= 1
          /\ arg_stems[j].audio
                = ConstClip(Len(arg_stems[j].audio),
                            CASE arg_stems[j].name = "vocals" -> 80
                              [] arg_stems[j].name = "drums" -> 70
                              [] arg_stems[j].name = "bass" -> 60
                              [] arg_stems[j].name = "other" -> 50
                              [] OTHER -> 0)
    /\ {arg_stems[j].name : j \in 1..4}
          = {"vocals", "drums", "bass", "other"}

\* C21 as stated: for the StemSet vocals 0.8, drums 0.7, bass 0.6, other 0.5
\* the weighted sum before normalization is the constant 1.950 and the
\* returned buffer is the constant 0.95
C21_VolumeTestSums1950 ==
    MixedVolumeTest =>
        /\ mixed_sum.ok /\ ret.ok
        /\ \A k \in 1..Len(mixed_sum.buf) :
              /\ ExactSumAt(arg_stems, 1, k) = 19500
              /\ mixed_sum.buf[k] = 195
        /\ \A k \in 1..Len(ret.buf) : ret.buf[k] = 95

\* C21: for that StemSet the weighted sum before normalization is the
\* constant 0.8 + 0.595 + 0.48 + 0.375 = 2.250 (the accumulator holds it to
\* within the rounding of its four products) and the returned buffer is the
\* constant 0.95
C21_VolumeTestSums2250 ==
    MixedVolumeTest =>
        /\ mixed_sum.ok /\ ret.ok
        /\ Len(mixed_sum.buf) = Len(arg_stems[1].audio)
        /\ Len(ret.buf) = Len(arg_stems[1].audio)
        /\ \A k \in 1..Len(mixed_sum.buf) :
              /\ ExactSumAt(arg_stems, 1, k) = 22500
              /\ 2 * Abs(mixed_sum.buf[k] * SCALE - 22500) <= 4 * SCALE
        /\ \A k \in 1..Len(ret.buf) : ret.buf[k] = 95

C21_Witness ==
    /\ MixedVolumeTest
    /\ Len(ret.buf) = MaxStemLen
    /\ ret.buf[1] = 95
    /\ mixed_sum.buf[1] > 195

\* sample k of the same sum, each product rounded to the sample resolution
RECURSIVE RoundedSumAt(_, _, _)
RoundedSumAt(stems, j, k) ==
    IF j > Len(stems) THEN 0
    ELSE (IF Audible(stems[j].audio)
          THEN Sgn(At(stems[j].audio, k))
               * RoundDiv(Abs(At(stems[j].audio, k))
                          * ClaimedGain(stems[j].name), SCALE)
          ELSE 0)
         + RoundedSumAt(stems, j + 1, k)

\* C22: before normalization the accumulator of mix_stems is the sample-wise
\* sum, over the stems of peak >= 1e-6, of gain * stem (each product rounded
\* to the sample resolution), with the gains vocals 1.00, drums 0.85,
\* bass 0.80, other 0.75 and 0.60 for any other key; a stem of peak < 1e-6
\* contributes nothing
C22_AccumulatorIsWeightedSum ==
    (fn = "mix_stems" /\ returned /\ mixed_sum.ok) =>
        /\ Len(mixed_sum.buf) = Len(arg_stems[1].audio)
        /\ \A k \in 1..Len(mixed_sum.buf) :
              mixed_sum.buf[k] = RoundedSumAt(arg_stems, 1, k)

C22_Witness ==
    /\ fn = "mix_stems" /\ returned /\ mixed_sum.ok
    /\ Len(arg_stems) = 2
    /\ arg_stems[1].name = "synth" /\ arg_stems[1].audio = << 60, -80 >>
    /\ arg_stems[2].name = "drums" /\ arg_stems[2].audio = << 0, 0 >>
    /\ mixed_sum.buf = << 36, -48 >>

\* the chain loop after its first i clips: what is laid down and where the
\* next clip goes
RECURSIVE ChainPrefix(_, _, _)
ChainPrefix(cl, n, i) ==
    IF i = 0
    THEN [ok |-> TRUE, buf |-> Zeros(TotalSamples(cl, n)), pos |-> 0]
    ELSE LET st == ChainPrefix(cl, n, i - 1) IN
         IF ~st.ok THEN [ok |-> FALSE, buf |-> << >>, pos |-> 0]
         ELSE IF i = 1 THEN ChainFirst(st, cl[i], n)
         ELSE IF i = Len(cl) THEN ChainLast(st, cl[i], n)
         ELSE ChainMiddle(st, cl[i], n)

\* the weight w_k of what is laid down: it falls linearly from 1 at k = 0 to
\* 0 at k = n - 1 (n >= 2)
ClaimedRamp(n, k) == SCALE - RoundDiv(k * SCALE, n - 1)

\* w times the value laid down plus (1 - w) times the later clip's sample
Blend(laid, x, w) == Mul(laid, w) + Mul(x, SCALE - w)

\* the chainer has returned on at least two clips, none shorter than the
\* crossfade, with a crossfade of at least lo samples
ChainedWithOverlap(lo) ==
    ChainedLongClips /\ Len(arg_clips) >= 2 /\ cs >= lo

\* C23 as stated: in the overlap of each adjacent pair of clips the chain
\* loop sets output sample k (k = 0..C-1) to w_k times the value already laid
\* down plus (1 - w_k) times sample k of the later clip, with w_k falling
\* linearly from 1 at k = 0 (the value laid down is kept) to 0 at k = C-1
\* (the later clip has taken over)
C23_OverlapIsLinearBlend ==
    ChainedWithOverlap(1) =>
        /\ ret.ok
        /\ \A i \in 2..Len(arg_clips) :
              LET before == ChainPrefix(arg_clips, cs, i - 1)
                  after == ChainPrefix(arg_clips, cs, i) IN
              /\ after.ok
              /\ after.buf[before.pos + 1] = before.buf[before.pos + 1]
              /\ after.buf[before.pos + cs] = arg_clips[i][cs]
              /\ cs >= 2 =>
                    \A k \in 0..(cs - 1) :
                        after.buf[before.pos + k + 1]
                          = Blend(before.buf[before.pos + k + 1],
                                  arg_clips[i][k + 1], ClaimedRamp(cs, k))

\* C23 (amended): with C >= 2 the chain loop sets output sample k of each
\* overlap to w_k times the value already laid down plus (1 - w_k) times
\* sample k of the later clip, w_k falling linearly from 1 at k = 0 to 0 at
\* k = C-1; with C = 1 the one overlap sample keeps the value laid down.
\* The chained output holds these values wherever no later crossfade
\* reaches: in the last overlap, and in every overlap whose later clip is at
\* least 2 * C long
C23_OverlapIsLinearBlendFromTwo ==
    ChainedWithOverlap(1) =>
        /\ ret.ok
        /\ \A i \in 2..Len(arg_clips) :
              LET before == ChainPrefix(arg_clips, cs, i - 1)
                  after == ChainPrefix(arg_clips, cs, i) IN
              /\ after.ok
              /\ \A k \in 0..(cs - 1) :
                    /\ after.buf[before.pos + k + 1]
                         = IF cs = 1 THEN before.buf[before.pos + 1]
                           ELSE Blend(before.buf[before.pos + k + 1],
                                      arg_clips[i][k + 1],
                                      ClaimedRamp(cs, k))
                    /\ (i = Len(arg_clips) \/ Len(arg_clips[i]) >= 2 * cs)
                         => ret.buf[before.pos + k + 1]
                              = after.buf[before.pos + k + 1]
              /\ cs >= 2 =>
                    /\ after.buf[before.pos + 1] = before.buf[before.pos + 1]
                    /\ after.buf[before.pos + cs] = arg_clips[i][cs]

C23_Witness ==
    /\ ChainedWithOverlap(3)
    /\ arg_clips = << << 50, 50, 50 >>, << -80, -80, -80 >> >>
    /\ ret.ok
    /\ ret.buf = << 50, -15, -80 >>

\* where clip i of the chain starts in the output: every earlier clip
\* advances the position by its length less the crossfade
RECURSIVE PlacedAt(_, _, _)
PlacedAt(cl, n, i) ==
    IF i <= 1 THEN 0 ELSE PlacedAt(cl, n, i - 1) + Len(cl[i - 1]) - n

\* output sample p (from 1) lies in the overlap of some adjacent pair
InOverlap(cl, n, p) ==
    \E j \in 2..Len(cl) :
        p > PlacedAt(cl, n, j) /\ p <= PlacedAt(cl, n, j) + n

\* C24: every output sample of _chain_with_crossfade that lies neither in a
\* crossfade overlap nor in the final fade-out window (the last
\* crossfade_samples samples) equals the sample of the one input clip placed
\* there; in particular _add_final_fadeout, which the chainer applies to a
\* single clip, leaves every sample before the last crossfade_samples
\* samples of audio longer than that unchanged
C24_ClipsCopiedThrough ==
    ChainedLongClips =>
        /\ ret.ok
        /\ \A i \in 1..Len(arg_clips) :
              \A k \in 1..Len(arg_clips[i]) :
                  LET p == PlacedAt(arg_clips, cs, i) + k IN
                  (~InOverlap(arg_clips, cs, p) /\ p <= Len(ret.buf) - cs)
                      => ret.buf[p] = arg_clips[i][k]
        /\ (Len(arg_clips) = 1 /\ Len(arg_clips[1]) > cs) =>
              /\ Len(ret.buf) = Len(arg_clips[1])
              /\ \A k \in 1..(Len(arg_clips[1]) - cs) :
                    ret.buf[k] = arg_clips[1][k]

C24_Witness ==
    /\ ChainedLongClips
    /\ Len(arg_clips) = 3 /\ cs = 2
    /\ \A j \in 1..3 : arg_clips[j] = << 50, -80, 50, -80, 50 >>
    /\ ret.ok /\ Len(ret.buf) = 11
    /\ ~InOverlap(arg_clips, cs, 6)
    /\ ret.buf[6] = arg_clips[2][3]
    /\ ret.buf[11] = 0

\* 1 - t for t going from 0 on sample 0 to 1 on sample n - 1; the ramp of
\* one sample is its start value
ClaimedLinear(n, k) ==
    IF n = 1 THEN SCALE ELSE SCALE - RoundDiv(k * SCALE, n - 1)

\* (1 - t) ^ 1.5 for the same t
ClaimedCurve(n, k) == Pow15(ClaimedLinear(n, k))

\* the audio multiplied by the linear ramp over its whole length
FadedWhole(audio) ==
    [k \in 1..Len(audio) |->
        Mul(audio[k], ClaimedLinear(Len(audio), k - 1))]

\* the last n samples of the audio multiplied by the curve, the others kept
FadedTail(audio, n) ==
    [k \in 1..Len(audio) |->
        IF k <= Len(audio) - n THEN audio[k]
        ELSE Mul(audio[k], ClaimedCurve(n, k - (Len(audio) - n) - 1))]

\* the chainer has returned on a single clip: the result is that of
\* _add_final_fadeout on the clip
FadedOneClip ==
    fn = "chain_with_crossfade" /\ returned /\ Len(arg_clips) = 1

\* C25 as stated: _add_final_fadeout uses the full-length linear ramp only
\* when the audio is strictly shorter than crossfade_samples; when it is as
\* long or longer it multiplies exactly the last crossfade_samples samples by
\* (1 - t)^1.5
C25_CurveFromEqualLength ==
    FadedOneClip =>
        /\ ret.ok
        /\ Len(arg_clips[1]) < cs => ret.buf = FadedWhole(arg_clips[1])
        /\ Len(arg_clips[1]) >= cs => ret.buf = FadedTail(arg_clips[1], cs)

\* C25 (amended): _add_final_fadeout uses the full-length linear ramp when
\* the audio is no longer than crossfade_samples; only when it is strictly
\* longer does it multiply exactly the last crossfade_samples samples by
\* (1 - t)^1.5
C25_CurveFromLongerLength ==
    FadedOneClip =>
        /\ ret.ok
        /\ Len(arg_clips[1]) <= cs => ret.buf = FadedWhole(arg_clips[1])
        /\ Len(arg_clips[1]) > cs => ret.buf = FadedTail(arg_clips[1], cs)

C25_Witness ==
    /\ FadedOneClip
    /\ cs = 3 /\ arg_clips[1] = << 50, 50, 50 >>
    /\ ret = Ok(<< 50, 25, 0 >>)
    /\ FadedTail(arg_clips[1], cs) = << 50, 18, 0 >>

(* ------------------------ claims on generate_song --------------------- *)

\* number of calls of op the request has made
OpCount(op) == Cardinality({k \in 1..Len(log) : log[k].op = op})

\* the request has called op
Called(op) == \E k \in 1..Len(log) : log[k].op = op

\* C2: once a generate_clip or process_clip call has raised, the request has
\* ended with (None, error message): the call is the last one made (it is
\* not retried, no later call follows) and nothing is handed to save_output
C2_FailureAborts ==
    raised.op # "none" =>
        /\ pc = "done"
        /\ result.path = "None"
        /\ result.info = "Generation Error"
        /\ Len(log) = raised.at
        /\ log[raised.at].op = raised.op
        /\ log[raised.at].idx = raised.idx
        /\ Cardinality({k \in 1..Len(log) :
              log[k].op = raised.op /\ log[k].idx = raised.idx}) = 1
        /\ ~Called("save_output")
        /\ saved = << >>

C2_Witness ==
    /\ raised.op = "process_clip"
    /\ raised.idx = 1
    /\ OpCount("generate_clip") = 2
    /\ pc = "done"
    /\ result.path = "None"

\* place of a step in the pipeline of one request
Phase(op) ==
    CASE op = "analyze" -> 1
      [] op = "generate_clip" -> 2
      [] op = "process_clip" -> 3
      [] op = "mix_stems" -> 4
      [] op = "chain_with_crossfade" -> 5
      [] op = "master" -> 6
      [] op = "save_output" -> 7

\* C3: the steps of a request occur in the order analysis, generate_clip
\* 0..N-1, process_clip 0..N-1 (none before the last generate_clip),
\* mix_stems per clip, chaining, master, save_output; and save_output is
\* handed the value master returned
C3_StepOrder ==
    /\ \A a, b \in 1..Len(log) :
          a < b => Phase(log[a].op) <= Phase(log[b].op)
    /\ \A a \in 1..Len(log) :
          log[a].op \in {"generate_clip", "process_clip", "mix_stems"} =>
              log[a].idx = Cardinality({b \in 1..(a - 1) :
                                           log[b].op = log[a].op})
    /\ Len(log) > 0 => log[1].op = "analyze"
    /\ OpCount("analyze") <= 1
    /\ Called("process_clip") => OpCount("generate_clip") = num_clips
    /\ Called("mix_stems") => OpCount("process_clip") = num_clips
    /\ Called("chain_with_crossfade") => OpCount("mix_stems") = num_clips
    /\ OpCount("chain_with_crossfade") <= 1
    /\ Called("master") => Called("chain_with_crossfade")
    /\ OpCount("master") <= 1
    /\ OpCount("save_output") <= 1
    /\ \A a \in 1..Len(log) :
          log[a].op = "save_output" =>
              /\ a > 1
              /\ log[a - 1].op = "master"
              /\ log[a].buf = log[a - 1].buf
              /\ log[a].buf = final_audio

C3_Witness ==
    /\ pc = "done"
    /\ result.path = "file"
    /\ num_clips = 2
    /\ Len(log) = 10
    /\ log[10].op = "save_output"
    /\ log[10].buf # chained

\* C4 (as claimed): a request for zero clips fails in the chainer: nothing
\* is mastered, nothing is handed to save_output and no song is returned
C4_ZeroClipsFail ==
    (pc # "idle" /\ num_clips = 0) =>
        /\ pc \notin {"master", "save"}
        /\ ~Called("master")
        /\ ~Called("save_output")
        /\ saved = << >>
        /\ result.path = "None"

\* the last secs seconds of a clip sampled at rate, the whole clip when it
\* is shorter
TrailingSeconds(cl, secs, rate) ==
    LET m == MinOf(Len(cl), secs * rate) IN
    [k \in 1..m |-> cl[Len(cl) - m + k]]

\* a generate_clip call has just returned its (length-normalized) clip
GenerateClipReturned == gen_call.idx >= 0

\* C15 (as claimed): the generate_clip call for clip index 0 receives no
\* conditioning; the call for every index i > 0 receives as conditioning the
\* trailing 2 seconds of the clip returned for index i-1
C15_ConditionedOnPrevious ==
    GenerateClipReturned =>
        /\ gen_call.idx = 0 => ~gen_call.conditioning.some
        /\ gen_call.idx > 0 =>
              /\ gen_call.conditioning.some
              /\ gen_call.conditioning.buf
                    = TrailingSeconds(clips[gen_call.idx], 2, gen_sample_rate)

\* C15 (amended): the generate_clip call for clip index 0 is handed no
\* previous clip and has no conditioning; the call for every index i > 0 is
\* handed the clip returned for index i-1 and no other; under ACE-Step its
\* conditioning is the trailing 2 seconds of that clip (the whole clip when
\* it is shorter), under MusicGen it has no conditioning
C15_ConditionedOnPreviousUnderAceStep ==
    GenerateClipReturned =>
        /\ gen_call.idx = 0 =>
              /\ ~gen_call.previous_clip.some
              /\ ~gen_call.conditioning.some
        /\ gen_call.idx > 0 =>
              /\ gen_call.previous_clip = Some(clips[gen_call.idx])
              /\ gen_call.model = "ace_step" =>
                    gen_call.conditioning
                      = Some(TrailingSeconds(clips[gen_call.idx], 2,
                                             gen_sample_rate))
              /\ gen_call.model = "musicgen" => ~gen_call.conditioning.some

C15_Witness ==
    /\ GenerateClipReturned
    /\ gen_call.idx = 1
    /\ gen_call.model = "ace_step"
    /\ gen_sample_rate = 1
    /\ clips[1] = << 50, -80, 50 >>
    /\ gen_call.conditioning = Some(<< -80, 50 >>)

\* C16: every clip returned by generate_clip has exactly
\* int(clip_duration * sample_rate) samples: shorter raw audio is kept as a
\* prefix and padded with trailing zeros, longer raw audio is cut to its
\* first samples, raw audio of that length is returned unchanged
C16_ClipLengthNormalized ==
    GenerateClipReturned =>
        LET raw == gen_call.raw
            clip == gen_call.clip IN
        /\ Len(clip) = clip_len
        /\ \A k \in 1..clip_len :
              clip[k] = IF k <= Len(raw) THEN raw[k] ELSE 0
        /\ Len(raw) = clip_len => clip = raw

C16_Witness ==
    /\ GenerateClipReturned
    /\ clip_len = 3
    /\ gen_call.raw = << 50, 50 >>
    /\ gen_call.clip = << 50, 50, 0 >>
    /\ clips = << << 50, -80, 50 >>, << 50, 50, 0 >> >>

\* C17: when the separation model is unavailable, process_clip returns a
\* StemSet with exactly the keys vocals, bass, drums and other, in which
\* 'other' is the input clip unchanged and the three others are all-zero
\* buffers of the clip's length
C17_FallbackKeepsClipInOther ==
    (~demucs_loaded /\ pc \in {"process", "mix", "master", "save", "done"})
    =>
        \A k \in 1..Len(processed_clips) :
            LET stems == processed_clips[k] IN
            /\ Len(stems) = 4
            /\ {stems[j].name : j \in 1..4}
                  = {"vocals", "bass", "drums", "other"}
            /\ \A j \in 1..4 :
                  stems[j].audio = IF stems[j].name = "other"
                                   THEN clips[k]
                                   ELSE Zeros(Len(clips[k]))

C17_Witness ==
    /\ ~demucs_loaded
    /\ Len(processed_clips) = 2
    /\ clips[2] = << 50, -80, 50 >>
    /\ processed_clips[2][4] = [name |-> "other", audio |-> << 50, -80, 50 >>]
    /\ processed_clips[2][1] = [name |-> "vocals", audio |-> << 0, 0, 0 >>]

\* the messages with which generate_song reports a failed save
SaveErrors ==
    {"Error saving audio", "No output path returned",
     "Invalid output path type", "Output file not found",
     "Output path is not a valid file"}

\* C18: generate_song returns a non-None audio path only when save_output
\* succeeded and that path is an existing regular file; whenever the write
\* fails, or the returned path is missing, not a string, non-existent or a
\* directory, the result is (None, error message)
C18_SuccessOnlyWithFile ==
    /\ result.path # "None" =>
          /\ pc = "done"
          /\ Called("save_output")
          /\ save_ret = "file"
          /\ Len(saved) = 1
    /\ (Called("save_output") /\ save_ret # "file") =>
          /\ pc = "done"
          /\ result.path = "None"
          /\ result.info \in SaveErrors
    /\ save_ret = "pending" <=> ~Called("save_output")

C18_Witness ==
    /\ Called("save_output")
    /\ save_ret = "directory"
    /\ Len(saved) = 1
    /\ result = [path |-> "None", info |-> "Output path is not a valid file"]

\* C14 (as claimed): the components of one LEMMInterface use one and the
\* same sample rate, the configured one, at construction and at every step
\* of a request
C14_OneSampleRate == gen_sample_rate = sample_rate

\* the generate_clip call that returned last gave a clip of peak < 1e-6
SilentClipReturned ==
    /\ gen_call.idx >= 0
    /\ Len(gen_call.clip) >= 1
    /\ Peak(gen_call.clip) * 1000000 < SCALE

\* C29: if generate_clip returns a clip whose peak is below 1e-6,
\* generate_song stops at that clip: no further clip is generated, no clip is
\* processed, mixed or saved, and the result is (None, error message naming
\* that clip)
C29_SilentClipStopsRequest ==
    SilentClipReturned =>
        /\ pc = "done"
        /\ result = [path |-> "None",
                     info |-> SilentClipMessage(gen_call.idx + 1)]
        /\ log[Len(log)] = Call("generate_clip", gen_call.idx, << >>)
        /\ Len(clips) = gen_call.idx
        /\ processed_clips = << >>
        /\ mixed_clips = << >>
        /\ saved = << >>
        /\ save_ret = "pending"

C29_Witness ==
    /\ SilentClipReturned
    /\ gen_call.idx = 1
    /\ Len(clips) = 1
    /\ pc = "done"
    /\ result.info = "Clip 2 is silent! Generation failed."

(* ------------------- claims on concurrent requests -------------------- *)

\* the threads whose generate_clip call is executing on the shared pipeline
OnPipeline == {r \in Requests : req_pc[r] = "generate_clip"}

\* C13 (as claimed): the generation calls of concurrent requests are
\* serialized: at no time are generate_clip calls of two different requests
\* executing on the shared pipeline
C13_GenerationSerialized == Cardinality(OnPipeline) <= 1

\* C27: whenever generate_clip invokes the loaded pipeline, that pipeline is
\* the one belonging to the active model type the call is routed by; this
\* holds after any sequence of requests, forced model choices included
C27_PipelineMatchesActiveModel ==
    \A r \in OnPipeline : pipeline = req_model[r]

\* every other request has returned or has not arrived yet
RunsAlone(r) ==
    \A q \in Requests \ {r} : req_pc[q] \in {"idle", "done"}

\* C28: a request with model choice 'Auto (Recommended)' generates with the
\* model that automatic selection chose at start-up, whatever model earlier
\* requests forced (stated for a request that runs with no other request
\* under way)
C28_AutoUsesStartupModel ==
    \A r \in OnPipeline :
        (req_choice[r] = "Auto (Recommended)" /\ RunsAlone(r))
            => req_model[r] = startup_model

(* ----------------------- claims on save_output ------------------------ *)

\* C19 (as claimed): every save_output call made without a filename writes
\* to a new filename: no two calls return the same path, and the file a
\* call returned still holds what that call wrote
C19_NewFileEachSave ==
    /\ \A j, k \in 1..Len(save_calls) :
          (j # k /\ save_calls[j].ok /\ save_calls[k].ok) =>
              save_calls[j].path # save_calls[k].path
    /\ \A j \in 1..Len(save_calls) :
          save_calls[j].ok =>
              output_dir[save_calls[j].path] = save_calls[j].written

(* ------------- claims on chains given by their durations -------------- *)

\* three 3-second clips at 44100 Hz, chained with a 2-second crossfade
ThreeClipChain ==
    /\ chain_rate = 44100
    /\ chain_secs = << 3, 3, 3 >>
    /\ chain_xfade = 2
    /\ chain_total # -1

\* C20 as stated: chaining three 3-second clips at 44100 Hz (132300 samples
\* each) with a 2-second crossfade (88200 samples) yields exactly 573300
\* samples
C20_ThreeClipsGive573300 == ThreeClipChain => chain_total = 573300

\* C20: chaining three 3-second clips at 44100 Hz (132300 samples each) with
\* a 2-second crossfade (88200 samples) yields exactly
\* 3 * 132300 - 2 * 88200 = 220500 samples
C20_ThreeClipsGive220500 ==
    ThreeClipChain =>
        /\ ClipLengths(chain_secs, chain_rate) = << 132300, 132300, 132300 >>
        /\ cs = 88200
        /\ chain_total = 220500

C20_Witness == ThreeClipChain /\ cs = 88200 /\ chain_total = 220500

(* -------------------- claims on the DatasetManager -------------------- *)

\* the total size, in tenths of a GB, of the datasets of a list from i on
\* that are among the keys ks
RECURSIVE SizeOfFrom(_, _, _)
SizeOfFrom(datasets, ks, i) ==
    IF i > Len(datasets) THEN 0
    ELSE (IF datasets[i] \in ks THEN SizeTenths[datasets[i]] ELSE 0)
         + SizeOfFrom(datasets, ks, i + 1)

\* C26: auto_download_on_space(max_size_gb) respects the storage limit: the
\* total size of the datasets of the phase it has selected and downloaded
\* never exceeds max_size_gb
C26_StorageLimitRespected ==
    auto_call.ret \in {"True", "False"} =>
        SizeOfFrom(PhaseDatasets(auto_call.phase), status.downloaded, 1)
            <= auto_call.max_size_gb * 10

\* C30: whenever download_dataset returns True the key is recorded in
\* status["downloaded"], and a file left by a download that failed part-way
\* is never taken for a finished download
C30_TrueOnlyWhenDownloaded ==
    (last_download.key \in DatasetKeys /\ last_download.ret) =>
        /\ last_download.key \in status.downloaded
        /\ ~(last_download.how = "file_exists"
              /\ cache_files[last_download.key] = "partial")

====
